---- MODULE Spec2Model ----
(***************************************************************************)
(* Model of paper_scout's heuristic relevance scoring:                     *)
(*   src/src/paper_scout/scoring.py     score_spoj_fit, _norm, _hit        *)
(*   src/src/paper_scout/benchmarks.py  extract_benchmarks, BENCHMARKS     *)
(*   src/src/paper_scout/pitch.py       build_spoj_pitch                   *)
(*   src/src/paper_scout/dedupe.py      stable_paper_key, dedupe_papers    *)
(*   src/src/paper_scout/main.py        the import of scoring.py           *)
(*                                                                         *)
(* A str is the sequence of its Unicode code points.  The regular          *)
(* expressions of the tables are built from literal words, \b and single   *)
(* separators, so they see a text as its tokens: the maximal runs of word  *)
(* characters (one token each) and every other character (one token        *)
(* each).  A regular expression is the set of token sequences it matches   *)
(* (its alternatives), with the lookahead it ends in.                      *)
(***************************************************************************)
EXTENDS Integers, Sequences, FiniteSets, TLC

VARIABLES
    papers,    \* the Paper objects at hand: title, abstract and the enrichment fields
    calls,     \* the calls of score_spoj_fit attempted so far, in call order: [idx, doc, raised]
               \* and, when nothing was raised, fr and loc
    hits,      \* what extract_benchmarks returned for papers[1] (NotRun before the call)
    module,    \* scoring.py as a module: "not_imported", "imported" or the exception of the import
    pitch,     \* what build_spoj_pitch returned for papers[1] (NotRun before the call)
    deduped    \* the calls of dedupe_papers made so far: [arg, raised, out], in call order

vars == <<papers, calls, hits, module, pitch, deduped>>

(***************************************************************************)
(* Bounds of the model.                                                    *)
(***************************************************************************)
MaxPhrases == 4
MaxCalls == 3

(***************************************************************************)
(* Characters.  Ord gives the code point of the characters the literals    *)
(* of this module are written with (ASCII 32..126 but the grave accent,    *)
(* and the four control characters a string of the module can escape).     *)
(***************************************************************************)
Ascii32 == " !\"#$%&'()*+,-./0123456789:;<=>?@ABCDEFGHIJKLMNOPQRSTUVWXYZ[\\]^_"
Ascii97 == "abcdefghijklmnopqrstuvwxyz{|}~"

Ord ==
    [c \in {SubSeq(Ascii32, i, i) : i \in 1..Len(Ascii32)}
            \cup {SubSeq(Ascii97, i, i) : i \in 1..Len(Ascii97)}
            \cup {"\t", "\n", "\f", "\r"} |->
        CASE c = "\t" -> 9
          [] c = "\n" -> 10
          [] c = "\f" -> 12
          [] c = "\r" -> 13
          [] \E i \in 1..Len(Ascii32) : SubSeq(Ascii32, i, i) = c ->
                31 + (CHOOSE i \in 1..Len(Ascii32) : SubSeq(Ascii32, i, i) = c)
          [] OTHER ->
                96 + (CHOOSE i \in 1..Len(Ascii97) : SubSeq(Ascii97, i, i) = c)]

\* The str a literal of this module stands for.
Codes(s) == [i \in 1..Len(s) |-> Ord[SubSeq(s, i, i)]]

\* str.startswith
StartsWith(s, pre) == Len(s) >= Len(pre) /\ SubSeq(s, 1, Len(pre)) = pre

(***************************************************************************)
(* The character classes and the case mapping of str and re, from the      *)
(* Unicode database of the interpreter (14.0).                             *)
(***************************************************************************)
\* \s of a str pattern, and the characters str.strip() removes: chr(c).isspace().
Whitespace ==
    (9..13) \cup (28..32) \cup {133, 160, 5760} \cup (8192..8202)
        \cup {8232, 8233, 8239, 8287, 12288}

\* \w (and so \b) of a str pattern: the code points c with chr(c).isalnum(), and "_".
\* Each pair is a range lo..hi; the pairs are in ascending order.
WordRanges ==
    << <<48, 57>>, <<65, 90>>, <<95, 95>>, <<97, 122>>, <<170, 170>>, <<178, 179>>, <<181, 181>>,
       <<185, 186>>, <<188, 190>>, <<192, 214>>, <<216, 246>>, <<248, 705>>, <<710, 721>>,
       <<736, 740>>, <<748, 748>>, <<750, 750>>, <<880, 884>>, <<886, 887>>, <<890, 893>>,
       <<895, 895>>, <<902, 902>>, <<904, 906>>, <<908, 908>>, <<910, 929>>, <<931, 1013>>,
       <<1015, 1153>>, <<1162, 1327>>, <<1329, 1366>>, <<1369, 1369>>, <<1376, 1416>>,
       <<1488, 1514>>, <<1519, 1522>>, <<1568, 1610>>, <<1632, 1641>>, <<1646, 1647>>,
       <<1649, 1747>>, <<1749, 1749>>, <<1765, 1766>>, <<1774, 1788>>, <<1791, 1791>>,
       <<1808, 1808>>, <<1810, 1839>>, <<1869, 1957>>, <<1969, 1969>>, <<1984, 2026>>,
       <<2036, 2037>>, <<2042, 2042>>, <<2048, 2069>>, <<2074, 2074>>, <<2084, 2084>>,
       <<2088, 2088>>, <<2112, 2136>>, <<2144, 2154>>, <<2160, 2183>>, <<2185, 2190>>,
       <<2208, 2249>>, <<2308, 2361>>, <<2365, 2365>>, <<2384, 2384>>, <<2392, 2401>>,
       <<2406, 2415>>, <<2417, 2432>>, <<2437, 2444>>, <<2447, 2448>>, <<2451, 2472>>,
       <<2474, 2480>>, <<2482, 2482>>, <<2486, 2489>>, <<2493, 2493>>, <<2510, 2510>>,
       <<2524, 2525>>, <<2527, 2529>>, <<2534, 2545>>, <<2548, 2553>>, <<2556, 2556>>,
       <<2565, 2570>>, <<2575, 2576>>, <<2579, 2600>>, <<2602, 2608>>, <<2610, 2611>>,
       <<2613, 2614>>, <<2616, 2617>>, <<2649, 2652>>, <<2654, 2654>>, <<2662, 2671>>,
       <<2674, 2676>>, <<2693, 2701>>, <<2703, 2705>>, <<2707, 2728>>, <<2730, 2736>>,
       <<2738, 2739>>, <<2741, 2745>>, <<2749, 2749>>, <<2768, 2768>>, <<2784, 2785>>,
       <<2790, 2799>>, <<2809, 2809>>, <<2821, 2828>>, <<2831, 2832>>, <<2835, 2856>>,
       <<2858, 2864>>, <<2866, 2867>>, <<2869, 2873>>, <<2877, 2877>>, <<2908, 2909>>,
       <<2911, 2913>>, <<2918, 2927>>, <<2929, 2935>>, <<2947, 2947>>, <<2949, 2954>>,
       <<2958, 2960>>, <<2962, 2965>>, <<2969, 2970>>, <<2972, 2972>>, <<2974, 2975>>,
       <<2979, 2980>>, <<2984, 2986>>, <<2990, 3001>>, <<3024, 3024>>, <<3046, 3058>>,
       <<3077, 3084>>, <<3086, 3088>>, <<3090, 3112>>, <<3114, 3129>>, <<3133, 3133>>,
       <<3160, 3162>>, <<3165, 3165>>, <<3168, 3169>>, <<3174, 3183>>, <<3192, 3198>>,
       <<3200, 3200>>, <<3205, 3212>>, <<3214, 3216>>, <<3218, 3240>>, <<3242, 3251>>,
       <<3253, 3257>>, <<3261, 3261>>, <<3293, 3294>>, <<3296, 3297>>, <<3302, 3311>>,
       <<3313, 3314>>, <<3332, 3340>>, <<3342, 3344>>, <<3346, 3386>>, <<3389, 3389>>,
       <<3406, 3406>>, <<3412, 3414>>, <<3416, 3425>>, <<3430, 3448>>, <<3450, 3455>>,
       <<3461, 3478>>, <<3482, 3505>>, <<3507, 3515>>, <<3517, 3517>>, <<3520, 3526>>,
       <<3558, 3567>>, <<3585, 3632>>, <<3634, 3635>>, <<3648, 3654>>, <<3664, 3673>>,
       <<3713, 3714>>, <<3716, 3716>>, <<3718, 3722>>, <<3724, 3747>>, <<3749, 3749>>,
       <<3751, 3760>>, <<3762, 3763>>, <<3773, 3773>>, <<3776, 3780>>, <<3782, 3782>>,
       <<3792, 3801>>, <<3804, 3807>>, <<3840, 3840>>, <<3872, 3891>>, <<3904, 3911>>,
       <<3913, 3948>>, <<3976, 3980>>, <<4096, 4138>>, <<4159, 4169>>, <<4176, 4181>>,
       <<4186, 4189>>, <<4193, 4193>>, <<4197, 4198>>, <<4206, 4208>>, <<4213, 4225>>,
       <<4238, 4238>>, <<4240, 4249>>, <<4256, 4293>>, <<4295, 4295>>, <<4301, 4301>>,
       <<4304, 4346>>, <<4348, 4680>>, <<4682, 4685>>, <<4688, 4694>>, <<4696, 4696>>,
       <<4698, 4701>>, <<4704, 4744>>, <<4746, 4749>>, <<4752, 4784>>, <<4786, 4789>>,
       <<4792, 4798>>, <<4800, 4800>>, <<4802, 4805>>, <<4808, 4822>>, <<4824, 4880>>,
       <<4882, 4885>>, <<4888, 4954>>, <<4969, 4988>>, <<4992, 5007>>, <<5024, 5109>>,
       <<5112, 5117>>, <<5121, 5740>>, <<5743, 5759>>, <<5761, 5786>>, <<5792, 5866>>,
       <<5870, 5880>>, <<5888, 5905>>, <<5919, 5937>>, <<5952, 5969>>, <<5984, 5996>>,
       <<5998, 6000>>, <<6016, 6067>>, <<6103, 6103>>, <<6108, 6108>>, <<6112, 6121>>,
       <<6128, 6137>>, <<6160, 6169>>, <<6176, 6264>>, <<6272, 6276>>, <<6279, 6312>>,
       <<6314, 6314>>, <<6320, 6389>>, <<6400, 6430>>, <<6470, 6509>>, <<6512, 6516>>,
       <<6528, 6571>>, <<6576, 6601>>, <<6608, 6618>>, <<6656, 6678>>, <<6688, 6740>>,
       <<6784, 6793>>, <<6800, 6809>>, <<6823, 6823>>, <<6917, 6963>>, <<6981, 6988>>,
       <<6992, 7001>>, <<7043, 7072>>, <<7086, 7141>>, <<7168, 7203>>, <<7232, 7241>>,
       <<7245, 7293>>, <<7296, 7304>>, <<7312, 7354>>, <<7357, 7359>>, <<7401, 7404>>,
       <<7406, 7411>>, <<7413, 7414>>, <<7418, 7418>>, <<7424, 7615>>, <<7680, 7957>>,
       <<7960, 7965>>, <<7968, 8005>>, <<8008, 8013>>, <<8016, 8023>>, <<8025, 8025>>,
       <<8027, 8027>>, <<8029, 8029>>, <<8031, 8061>>, <<8064, 8116>>, <<8118, 8124>>,
       <<8126, 8126>>, <<8130, 8132>>, <<8134, 8140>>, <<8144, 8147>>, <<8150, 8155>>,
       <<8160, 8172>>, <<8178, 8180>>, <<8182, 8188>>, <<8304, 8305>>, <<8308, 8313>>,
       <<8319, 8329>>, <<8336, 8348>>, <<8450, 8450>>, <<8455, 8455>>, <<8458, 8467>>,
       <<8469, 8469>>, <<8473, 8477>>, <<8484, 8484>>, <<8486, 8486>>, <<8488, 8488>>,
       <<8490, 8493>>, <<8495, 8505>>, <<8508, 8511>>, <<8517, 8521>>, <<8526, 8526>>,
       <<8528, 8585>>, <<9312, 9371>>, <<9450, 9471>>, <<10102, 10131>>, <<11264, 11492>>,
       <<11499, 11502>>, <<11506, 11507>>, <<11517, 11517>>, <<11520, 11557>>, <<11559, 11559>>,
       <<11565, 11565>>, <<11568, 11623>>, <<11631, 11631>>, <<11648, 11670>>, <<11680, 11686>>,
       <<11688, 11694>>, <<11696, 11702>>, <<11704, 11710>>, <<11712, 11718>>, <<11720, 11726>>,
       <<11728, 11734>>, <<11736, 11742>>, <<11823, 11823>>, <<12293, 12295>>, <<12321, 12329>>,
       <<12337, 12341>>, <<12344, 12348>>, <<12353, 12438>>, <<12445, 12447>>, <<12449, 12538>>,
       <<12540, 12543>>, <<12549, 12591>>, <<12593, 12686>>, <<12690, 12693>>, <<12704, 12735>>,
       <<12784, 12799>>, <<12832, 12841>>, <<12872, 12879>>, <<12881, 12895>>, <<12928, 12937>>,
       <<12977, 12991>>, <<13312, 19903>>, <<19968, 42124>>, <<42192, 42237>>, <<42240, 42508>>,
       <<42512, 42539>>, <<42560, 42606>>, <<42623, 42653>>, <<42656, 42735>>, <<42775, 42783>>,
       <<42786, 42888>>, <<42891, 42954>>, <<42960, 42961>>, <<42963, 42963>>, <<42965, 42969>>,
       <<42994, 43009>>, <<43011, 43013>>, <<43015, 43018>>, <<43020, 43042>>, <<43056, 43061>>,
       <<43072, 43123>>, <<43138, 43187>>, <<43216, 43225>>, <<43250, 43255>>, <<43259, 43259>>,
       <<43261, 43262>>, <<43264, 43301>>, <<43312, 43334>>, <<43360, 43388>>, <<43396, 43442>>,
       <<43471, 43481>>, <<43488, 43492>>, <<43494, 43518>>, <<43520, 43560>>, <<43584, 43586>>,
       <<43588, 43595>>, <<43600, 43609>>, <<43616, 43638>>, <<43642, 43642>>, <<43646, 43695>>,
       <<43697, 43697>>, <<43701, 43702>>, <<43705, 43709>>, <<43712, 43712>>, <<43714, 43714>>,
       <<43739, 43741>>, <<43744, 43754>>, <<43762, 43764>>, <<43777, 43782>>, <<43785, 43790>>,
       <<43793, 43798>>, <<43808, 43814>>, <<43816, 43822>>, <<43824, 43866>>, <<43868, 43881>>,
       <<43888, 44002>>, <<44016, 44025>>, <<44032, 55203>>, <<55216, 55238>>, <<55243, 55291>>,
       <<63744, 64109>>, <<64112, 64217>>, <<64256, 64262>>, <<64275, 64279>>, <<64285, 64285>>,
       <<64287, 64296>>, <<64298, 64310>>, <<64312, 64316>>, <<64318, 64318>>, <<64320, 64321>>,
       <<64323, 64324>>, <<64326, 64433>>, <<64467, 64829>>, <<64848, 64911>>, <<64914, 64967>>,
       <<65008, 65019>>, <<65136, 65140>>, <<65142, 65276>>, <<65296, 65305>>, <<65313, 65338>>,
       <<65345, 65370>>, <<65382, 65470>>, <<65474, 65479>>, <<65482, 65487>>, <<65490, 65495>>,
       <<65498, 65500>>, <<65536, 65547>>, <<65549, 65574>>, <<65576, 65594>>, <<65596, 65597>>,
       <<65599, 65613>>, <<65616, 65629>>, <<65664, 65786>>, <<65799, 65843>>, <<65856, 65912>>,
       <<65930, 65931>>, <<66176, 66204>>, <<66208, 66256>>, <<66273, 66299>>, <<66304, 66339>>,
       <<66349, 66378>>, <<66384, 66421>>, <<66432, 66461>>, <<66464, 66499>>, <<66504, 66511>>,
       <<66513, 66517>>, <<66560, 66717>>, <<66720, 66729>>, <<66736, 66771>>, <<66776, 66811>>,
       <<66816, 66855>>, <<66864, 66915>>, <<66928, 66938>>, <<66940, 66954>>, <<66956, 66962>>,
       <<66964, 66965>>, <<66967, 66977>>, <<66979, 66993>>, <<66995, 67001>>, <<67003, 67004>>,
       <<67072, 67382>>, <<67392, 67413>>, <<67424, 67431>>, <<67456, 67461>>, <<67463, 67504>>,
       <<67506, 67514>>, <<67584, 67589>>, <<67592, 67592>>, <<67594, 67637>>, <<67639, 67640>>,
       <<67644, 67644>>, <<67647, 67669>>, <<67672, 67702>>, <<67705, 67742>>, <<67751, 67759>>,
       <<67808, 67826>>, <<67828, 67829>>, <<67835, 67867>>, <<67872, 67897>>, <<67968, 68023>>,
       <<68028, 68047>>, <<68050, 68096>>, <<68112, 68115>>, <<68117, 68119>>, <<68121, 68149>>,
       <<68160, 68168>>, <<68192, 68222>>, <<68224, 68255>>, <<68288, 68295>>, <<68297, 68324>>,
       <<68331, 68335>>, <<68352, 68405>>, <<68416, 68437>>, <<68440, 68466>>, <<68472, 68497>>,
       <<68521, 68527>>, <<68608, 68680>>, <<68736, 68786>>, <<68800, 68850>>, <<68858, 68899>>,
       <<68912, 68921>>, <<69216, 69246>>, <<69248, 69289>>, <<69296, 69297>>, <<69376, 69415>>,
       <<69424, 69445>>, <<69457, 69460>>, <<69488, 69505>>, <<69552, 69579>>, <<69600, 69622>>,
       <<69635, 69687>>, <<69714, 69743>>, <<69745, 69746>>, <<69749, 69749>>, <<69763, 69807>>,
       <<69840, 69864>>, <<69872, 69881>>, <<69891, 69926>>, <<69942, 69951>>, <<69956, 69956>>,
       <<69959, 69959>>, <<69968, 70002>>, <<70006, 70006>>, <<70019, 70066>>, <<70081, 70084>>,
       <<70096, 70106>>, <<70108, 70108>>, <<70113, 70132>>, <<70144, 70161>>, <<70163, 70187>>,
       <<70272, 70278>>, <<70280, 70280>>, <<70282, 70285>>, <<70287, 70301>>, <<70303, 70312>>,
       <<70320, 70366>>, <<70384, 70393>>, <<70405, 70412>>, <<70415, 70416>>, <<70419, 70440>>,
       <<70442, 70448>>, <<70450, 70451>>, <<70453, 70457>>, <<70461, 70461>>, <<70480, 70480>>,
       <<70493, 70497>>, <<70656, 70708>>, <<70727, 70730>>, <<70736, 70745>>, <<70751, 70753>>,
       <<70784, 70831>>, <<70852, 70853>>, <<70855, 70855>>, <<70864, 70873>>, <<71040, 71086>>,
       <<71128, 71131>>, <<71168, 71215>>, <<71236, 71236>>, <<71248, 71257>>, <<71296, 71338>>,
       <<71352, 71352>>, <<71360, 71369>>, <<71424, 71450>>, <<71472, 71483>>, <<71488, 71494>>,
       <<71680, 71723>>, <<71840, 71922>>, <<71935, 71942>>, <<71945, 71945>>, <<71948, 71955>>,
       <<71957, 71958>>, <<71960, 71983>>, <<71999, 71999>>, <<72001, 72001>>, <<72016, 72025>>,
       <<72096, 72103>>, <<72106, 72144>>, <<72161, 72161>>, <<72163, 72163>>, <<72192, 72192>>,
       <<72203, 72242>>, <<72250, 72250>>, <<72272, 72272>>, <<72284, 72329>>, <<72349, 72349>>,
       <<72368, 72440>>, <<72704, 72712>>, <<72714, 72750>>, <<72768, 72768>>, <<72784, 72812>>,
       <<72818, 72847>>, <<72960, 72966>>, <<72968, 72969>>, <<72971, 73008>>, <<73030, 73030>>,
       <<73040, 73049>>, <<73056, 73061>>, <<73063, 73064>>, <<73066, 73097>>, <<73112, 73112>>,
       <<73120, 73129>>, <<73440, 73458>>, <<73648, 73648>>, <<73664, 73684>>, <<73728, 74649>>,
       <<74752, 74862>>, <<74880, 75075>>, <<77712, 77808>>, <<77824, 78894>>, <<82944, 83526>>,
       <<92160, 92728>>, <<92736, 92766>>, <<92768, 92777>>, <<92784, 92862>>, <<92864, 92873>>,
       <<92880, 92909>>, <<92928, 92975>>, <<92992, 92995>>, <<93008, 93017>>, <<93019, 93025>>,
       <<93027, 93047>>, <<93053, 93071>>, <<93760, 93846>>, <<93952, 94026>>, <<94032, 94032>>,
       <<94099, 94111>>, <<94176, 94177>>, <<94179, 94179>>, <<94208, 100343>>, <<100352, 101589>>,
       <<101632, 101640>>, <<110576, 110579>>, <<110581, 110587>>, <<110589, 110590>>,
       <<110592, 110882>>, <<110928, 110930>>, <<110948, 110951>>, <<110960, 111355>>,
       <<113664, 113770>>, <<113776, 113788>>, <<113792, 113800>>, <<113808, 113817>>,
       <<119520, 119539>>, <<119648, 119672>>, <<119808, 119892>>, <<119894, 119964>>,
       <<119966, 119967>>, <<119970, 119970>>, <<119973, 119974>>, <<119977, 119980>>,
       <<119982, 119993>>, <<119995, 119995>>, <<119997, 120003>>, <<120005, 120069>>,
       <<120071, 120074>>, <<120077, 120084>>, <<120086, 120092>>, <<120094, 120121>>,
       <<120123, 120126>>, <<120128, 120132>>, <<120134, 120134>>, <<120138, 120144>>,
       <<120146, 120485>>, <<120488, 120512>>, <<120514, 120538>>, <<120540, 120570>>,
       <<120572, 120596>>, <<120598, 120628>>, <<120630, 120654>>, <<120656, 120686>>,
       <<120688, 120712>>, <<120714, 120744>>, <<120746, 120770>>, <<120772, 120779>>,
       <<120782, 120831>>, <<122624, 122654>>, <<123136, 123180>>, <<123191, 123197>>,
       <<123200, 123209>>, <<123214, 123214>>, <<123536, 123565>>, <<123584, 123627>>,
       <<123632, 123641>>, <<124896, 124902>>, <<124904, 124907>>, <<124909, 124910>>,
       <<124912, 124926>>, <<124928, 125124>>, <<125127, 125135>>, <<125184, 125251>>,
       <<125259, 125259>>, <<125264, 125273>>, <<126065, 126123>>, <<126125, 126127>>,
       <<126129, 126132>>, <<126209, 126253>>, <<126255, 126269>>, <<126464, 126467>>,
       <<126469, 126495>>, <<126497, 126498>>, <<126500, 126500>>, <<126503, 126503>>,
       <<126505, 126514>>, <<126516, 126519>>, <<126521, 126521>>, <<126523, 126523>>,
       <<126530, 126530>>, <<126535, 126535>>, <<126537, 126537>>, <<126539, 126539>>,
       <<126541, 126543>>, <<126545, 126546>>, <<126548, 126548>>, <<126551, 126551>>,
       <<126553, 126553>>, <<126555, 126555>>, <<126557, 126557>>, <<126559, 126559>>,
       <<126561, 126562>>, <<126564, 126564>>, <<126567, 126570>>, <<126572, 126578>>,
       <<126580, 126583>>, <<126585, 126588>>, <<126590, 126590>>, <<126592, 126601>>,
       <<126603, 126619>>, <<126625, 126627>>, <<126629, 126633>>, <<126635, 126651>>,
       <<127232, 127244>>, <<130032, 130041>>, <<131072, 173791>>, <<173824, 177976>>,
       <<177984, 178205>>, <<178208, 183969>>, <<183984, 191456>>, <<194560, 195101>>,
       <<196608, 201546>> >>

\* chr(c).lower() where it is one other code point: <<lo, hi, step, delta>> says
\* c + delta for the c = lo, lo + step, ... up to hi.  In ascending order of lo.
LowerRanges ==
    << <<65, 90, 1, 32>>, <<192, 214, 1, 32>>, <<216, 222, 1, 32>>, <<256, 302, 2, 1>>,
       <<306, 310, 2, 1>>, <<313, 327, 2, 1>>, <<330, 374, 2, 1>>, <<376, 376, 1, -121>>,
       <<377, 381, 2, 1>>, <<385, 385, 1, 210>>, <<386, 388, 2, 1>>, <<390, 390, 1, 206>>,
       <<391, 391, 1, 1>>, <<393, 394, 1, 205>>, <<395, 395, 1, 1>>, <<398, 398, 1, 79>>,
       <<399, 399, 1, 202>>, <<400, 400, 1, 203>>, <<401, 401, 1, 1>>, <<403, 403, 1, 205>>,
       <<404, 404, 1, 207>>, <<406, 406, 1, 211>>, <<407, 407, 1, 209>>, <<408, 408, 1, 1>>,
       <<412, 412, 1, 211>>, <<413, 413, 1, 213>>, <<415, 415, 1, 214>>, <<416, 420, 2, 1>>,
       <<422, 422, 1, 218>>, <<423, 423, 1, 1>>, <<425, 425, 1, 218>>, <<428, 428, 1, 1>>,
       <<430, 430, 1, 218>>, <<431, 431, 1, 1>>, <<433, 434, 1, 217>>, <<435, 437, 2, 1>>,
       <<439, 439, 1, 219>>, <<440, 440, 1, 1>>, <<444, 444, 1, 1>>, <<452, 452, 1, 2>>,
       <<453, 453, 1, 1>>, <<455, 455, 1, 2>>, <<456, 456, 1, 1>>, <<458, 458, 1, 2>>,
       <<459, 475, 2, 1>>, <<478, 494, 2, 1>>, <<497, 497, 1, 2>>, <<498, 500, 2, 1>>,
       <<502, 502, 1, -97>>, <<503, 503, 1, -56>>, <<504, 542, 2, 1>>, <<544, 544, 1, -130>>,
       <<546, 562, 2, 1>>, <<570, 570, 1, 10795>>, <<571, 571, 1, 1>>, <<573, 573, 1, -163>>,
       <<574, 574, 1, 10792>>, <<577, 577, 1, 1>>, <<579, 579, 1, -195>>, <<580, 580, 1, 69>>,
       <<581, 581, 1, 71>>, <<582, 590, 2, 1>>, <<880, 882, 2, 1>>, <<886, 886, 1, 1>>,
       <<895, 895, 1, 116>>, <<902, 902, 1, 38>>, <<904, 906, 1, 37>>, <<908, 908, 1, 64>>,
       <<910, 911, 1, 63>>, <<913, 929, 1, 32>>, <<932, 939, 1, 32>>, <<975, 975, 1, 8>>,
       <<984, 1006, 2, 1>>, <<1012, 1012, 1, -60>>, <<1015, 1015, 1, 1>>, <<1017, 1017, 1, -7>>,
       <<1018, 1018, 1, 1>>, <<1021, 1023, 1, -130>>, <<1024, 1039, 1, 80>>, <<1040, 1071, 1, 32>>,
       <<1120, 1152, 2, 1>>, <<1162, 1214, 2, 1>>, <<1216, 1216, 1, 15>>, <<1217, 1229, 2, 1>>,
       <<1232, 1326, 2, 1>>, <<1329, 1366, 1, 48>>, <<4256, 4293, 1, 7264>>,
       <<4295, 4295, 1, 7264>>, <<4301, 4301, 1, 7264>>, <<5024, 5103, 1, 38864>>,
       <<5104, 5109, 1, 8>>, <<7312, 7354, 1, -3008>>, <<7357, 7359, 1, -3008>>,
       <<7680, 7828, 2, 1>>, <<7838, 7838, 1, -7615>>, <<7840, 7934, 2, 1>>, <<7944, 7951, 1, -8>>,
       <<7960, 7965, 1, -8>>, <<7976, 7983, 1, -8>>, <<7992, 7999, 1, -8>>, <<8008, 8013, 1, -8>>,
       <<8025, 8031, 2, -8>>, <<8040, 8047, 1, -8>>, <<8072, 8079, 1, -8>>, <<8088, 8095, 1, -8>>,
       <<8104, 8111, 1, -8>>, <<8120, 8121, 1, -8>>, <<8122, 8123, 1, -74>>, <<8124, 8124, 1, -9>>,
       <<8136, 8139, 1, -86>>, <<8140, 8140, 1, -9>>, <<8152, 8153, 1, -8>>,
       <<8154, 8155, 1, -100>>, <<8168, 8169, 1, -8>>, <<8170, 8171, 1, -112>>,
       <<8172, 8172, 1, -7>>, <<8184, 8185, 1, -128>>, <<8186, 8187, 1, -126>>,
       <<8188, 8188, 1, -9>>, <<8486, 8486, 1, -7517>>, <<8490, 8490, 1, -8383>>,
       <<8491, 8491, 1, -8262>>, <<8498, 8498, 1, 28>>, <<8544, 8559, 1, 16>>,
       <<8579, 8579, 1, 1>>, <<9398, 9423, 1, 26>>, <<11264, 11311, 1, 48>>,
       <<11360, 11360, 1, 1>>, <<11362, 11362, 1, -10743>>, <<11363, 11363, 1, -3814>>,
       <<11364, 11364, 1, -10727>>, <<11367, 11371, 2, 1>>, <<11373, 11373, 1, -10780>>,
       <<11374, 11374, 1, -10749>>, <<11375, 11375, 1, -10783>>, <<11376, 11376, 1, -10782>>,
       <<11378, 11378, 1, 1>>, <<11381, 11381, 1, 1>>, <<11390, 11391, 1, -10815>>,
       <<11392, 11490, 2, 1>>, <<11499, 11501, 2, 1>>, <<11506, 11506, 1, 1>>,
       <<42560, 42604, 2, 1>>, <<42624, 42650, 2, 1>>, <<42786, 42798, 2, 1>>,
       <<42802, 42862, 2, 1>>, <<42873, 42875, 2, 1>>, <<42877, 42877, 1, -35332>>,
       <<42878, 42886, 2, 1>>, <<42891, 42891, 1, 1>>, <<42893, 42893, 1, -42280>>,
       <<42896, 42898, 2, 1>>, <<42902, 42920, 2, 1>>, <<42922, 42922, 1, -42308>>,
       <<42923, 42923, 1, -42319>>, <<42924, 42924, 1, -42315>>, <<42925, 42925, 1, -42305>>,
       <<42926, 42926, 1, -42308>>, <<42928, 42928, 1, -42258>>, <<42929, 42929, 1, -42282>>,
       <<42930, 42930, 1, -42261>>, <<42931, 42931, 1, 928>>, <<42932, 42946, 2, 1>>,
       <<42948, 42948, 1, -48>>, <<42949, 42949, 1, -42307>>, <<42950, 42950, 1, -35384>>,
       <<42951, 42953, 2, 1>>, <<42960, 42960, 1, 1>>, <<42966, 42968, 2, 1>>,
       <<42997, 42997, 1, 1>>, <<65313, 65338, 1, 32>>, <<66560, 66599, 1, 40>>,
       <<66736, 66771, 1, 40>>, <<66928, 66938, 1, 39>>, <<66940, 66954, 1, 39>>,
       <<66956, 66962, 1, 39>>, <<66964, 66965, 1, 39>>, <<68736, 68786, 1, 64>>,
       <<71840, 71871, 1, 32>>, <<93760, 93791, 1, 32>>, <<125184, 125217, 1, 34>> >>

\* The property Cased (Lowercase, Uppercase or titlecase letter).
CasedRanges ==
    << <<65, 90>>, <<97, 122>>, <<170, 170>>, <<181, 181>>, <<186, 186>>, <<192, 214>>,
       <<216, 246>>, <<248, 442>>, <<444, 447>>, <<452, 659>>, <<661, 696>>, <<704, 705>>,
       <<736, 740>>, <<837, 837>>, <<880, 883>>, <<886, 887>>, <<890, 893>>, <<895, 895>>,
       <<902, 902>>, <<904, 906>>, <<908, 908>>, <<910, 929>>, <<931, 1013>>, <<1015, 1153>>,
       <<1162, 1327>>, <<1329, 1366>>, <<1376, 1416>>, <<4256, 4293>>, <<4295, 4295>>,
       <<4301, 4301>>, <<4304, 4346>>, <<4349, 4351>>, <<5024, 5109>>, <<5112, 5117>>,
       <<7296, 7304>>, <<7312, 7354>>, <<7357, 7359>>, <<7424, 7615>>, <<7680, 7957>>,
       <<7960, 7965>>, <<7968, 8005>>, <<8008, 8013>>, <<8016, 8023>>, <<8025, 8025>>,
       <<8027, 8027>>, <<8029, 8029>>, <<8031, 8061>>, <<8064, 8116>>, <<8118, 8124>>,
       <<8126, 8126>>, <<8130, 8132>>, <<8134, 8140>>, <<8144, 8147>>, <<8150, 8155>>,
       <<8160, 8172>>, <<8178, 8180>>, <<8182, 8188>>, <<8305, 8305>>, <<8319, 8319>>,
       <<8336, 8348>>, <<8450, 8450>>, <<8455, 8455>>, <<8458, 8467>>, <<8469, 8469>>,
       <<8473, 8477>>, <<8484, 8484>>, <<8486, 8486>>, <<8488, 8488>>, <<8490, 8493>>,
       <<8495, 8500>>, <<8505, 8505>>, <<8508, 8511>>, <<8517, 8521>>, <<8526, 8526>>,
       <<8544, 8575>>, <<8579, 8580>>, <<9398, 9449>>, <<11264, 11492>>, <<11499, 11502>>,
       <<11506, 11507>>, <<11520, 11557>>, <<11559, 11559>>, <<11565, 11565>>, <<42560, 42605>>,
       <<42624, 42653>>, <<42786, 42887>>, <<42891, 42894>>, <<42896, 42954>>, <<42960, 42961>>,
       <<42963, 42963>>, <<42965, 42969>>, <<42997, 42998>>, <<43000, 43002>>, <<43824, 43866>>,
       <<43868, 43880>>, <<43888, 43967>>, <<64256, 64262>>, <<64275, 64279>>, <<65313, 65338>>,
       <<65345, 65370>>, <<66560, 66639>>, <<66736, 66771>>, <<66776, 66811>>, <<66928, 66938>>,
       <<66940, 66954>>, <<66956, 66962>>, <<66964, 66965>>, <<66967, 66977>>, <<66979, 66993>>,
       <<66995, 67001>>, <<67003, 67004>>, <<67456, 67456>>, <<67459, 67461>>, <<67463, 67504>>,
       <<67506, 67514>>, <<68736, 68786>>, <<68800, 68850>>, <<71840, 71903>>, <<93760, 93823>>,
       <<119808, 119892>>, <<119894, 119964>>, <<119966, 119967>>, <<119970, 119970>>,
       <<119973, 119974>>, <<119977, 119980>>, <<119982, 119993>>, <<119995, 119995>>,
       <<119997, 120003>>, <<120005, 120069>>, <<120071, 120074>>, <<120077, 120084>>,
       <<120086, 120092>>, <<120094, 120121>>, <<120123, 120126>>, <<120128, 120132>>,
       <<120134, 120134>>, <<120138, 120144>>, <<120146, 120485>>, <<120488, 120512>>,
       <<120514, 120538>>, <<120540, 120570>>, <<120572, 120596>>, <<120598, 120628>>,
       <<120630, 120654>>, <<120656, 120686>>, <<120688, 120712>>, <<120714, 120744>>,
       <<120746, 120770>>, <<120772, 120779>>, <<122624, 122633>>, <<122635, 122654>>,
       <<125184, 125251>>, <<127280, 127305>>, <<127312, 127337>>, <<127344, 127369>> >>

\* The property Case_Ignorable.
CaseIgnorableRanges ==
    << <<39, 39>>, <<46, 46>>, <<58, 58>>, <<94, 94>>, <<96, 96>>, <<168, 168>>, <<173, 173>>,
       <<175, 175>>, <<180, 180>>, <<183, 184>>, <<688, 879>>, <<884, 885>>, <<890, 890>>,
       <<900, 901>>, <<903, 903>>, <<1155, 1161>>, <<1369, 1369>>, <<1375, 1375>>, <<1425, 1469>>,
       <<1471, 1471>>, <<1473, 1474>>, <<1476, 1477>>, <<1479, 1479>>, <<1524, 1524>>,
       <<1536, 1541>>, <<1552, 1562>>, <<1564, 1564>>, <<1600, 1600>>, <<1611, 1631>>,
       <<1648, 1648>>, <<1750, 1757>>, <<1759, 1768>>, <<1770, 1773>>, <<1807, 1807>>,
       <<1809, 1809>>, <<1840, 1866>>, <<1958, 1968>>, <<2027, 2037>>, <<2042, 2042>>,
       <<2045, 2045>>, <<2070, 2093>>, <<2137, 2139>>, <<2184, 2184>>, <<2192, 2193>>,
       <<2200, 2207>>, <<2249, 2306>>, <<2362, 2362>>, <<2364, 2364>>, <<2369, 2376>>,
       <<2381, 2381>>, <<2385, 2391>>, <<2402, 2403>>, <<2417, 2417>>, <<2433, 2433>>,
       <<2492, 2492>>, <<2497, 2500>>, <<2509, 2509>>, <<2530, 2531>>, <<2558, 2558>>,
       <<2561, 2562>>, <<2620, 2620>>, <<2625, 2626>>, <<2631, 2632>>, <<2635, 2637>>,
       <<2641, 2641>>, <<2672, 2673>>, <<2677, 2677>>, <<2689, 2690>>, <<2748, 2748>>,
       <<2753, 2757>>, <<2759, 2760>>, <<2765, 2765>>, <<2786, 2787>>, <<2810, 2815>>,
       <<2817, 2817>>, <<2876, 2876>>, <<2879, 2879>>, <<2881, 2884>>, <<2893, 2893>>,
       <<2901, 2902>>, <<2914, 2915>>, <<2946, 2946>>, <<3008, 3008>>, <<3021, 3021>>,
       <<3072, 3072>>, <<3076, 3076>>, <<3132, 3132>>, <<3134, 3136>>, <<3142, 3144>>,
       <<3146, 3149>>, <<3157, 3158>>, <<3170, 3171>>, <<3201, 3201>>, <<3260, 3260>>,
       <<3263, 3263>>, <<3270, 3270>>, <<3276, 3277>>, <<3298, 3299>>, <<3328, 3329>>,
       <<3387, 3388>>, <<3393, 3396>>, <<3405, 3405>>, <<3426, 3427>>, <<3457, 3457>>,
       <<3530, 3530>>, <<3538, 3540>>, <<3542, 3542>>, <<3633, 3633>>, <<3636, 3642>>,
       <<3654, 3662>>, <<3761, 3761>>, <<3764, 3772>>, <<3782, 3782>>, <<3784, 3789>>,
       <<3864, 3865>>, <<3893, 3893>>, <<3895, 3895>>, <<3897, 3897>>, <<3953, 3966>>,
       <<3968, 3972>>, <<3974, 3975>>, <<3981, 3991>>, <<3993, 4028>>, <<4038, 4038>>,
       <<4141, 4144>>, <<4146, 4151>>, <<4153, 4154>>, <<4157, 4158>>, <<4184, 4185>>,
       <<4190, 4192>>, <<4209, 4212>>, <<4226, 4226>>, <<4229, 4230>>, <<4237, 4237>>,
       <<4253, 4253>>, <<4348, 4348>>, <<4957, 4959>>, <<5906, 5908>>, <<5938, 5939>>,
       <<5970, 5971>>, <<6002, 6003>>, <<6068, 6069>>, <<6071, 6077>>, <<6086, 6086>>,
       <<6089, 6099>>, <<6103, 6103>>, <<6109, 6109>>, <<6155, 6159>>, <<6211, 6211>>,
       <<6277, 6278>>, <<6313, 6313>>, <<6432, 6434>>, <<6439, 6440>>, <<6450, 6450>>,
       <<6457, 6459>>, <<6679, 6680>>, <<6683, 6683>>, <<6742, 6742>>, <<6744, 6750>>,
       <<6752, 6752>>, <<6754, 6754>>, <<6757, 6764>>, <<6771, 6780>>, <<6783, 6783>>,
       <<6823, 6823>>, <<6832, 6862>>, <<6912, 6915>>, <<6964, 6964>>, <<6966, 6970>>,
       <<6972, 6972>>, <<6978, 6978>>, <<7019, 7027>>, <<7040, 7041>>, <<7074, 7077>>,
       <<7080, 7081>>, <<7083, 7085>>, <<7142, 7142>>, <<7144, 7145>>, <<7149, 7149>>,
       <<7151, 7153>>, <<7212, 7219>>, <<7222, 7223>>, <<7288, 7293>>, <<7376, 7378>>,
       <<7380, 7392>>, <<7394, 7400>>, <<7405, 7405>>, <<7412, 7412>>, <<7416, 7417>>,
       <<7468, 7530>>, <<7544, 7544>>, <<7579, 7679>>, <<8125, 8125>>, <<8127, 8129>>,
       <<8141, 8143>>, <<8157, 8159>>, <<8173, 8175>>, <<8189, 8190>>, <<8203, 8207>>,
       <<8216, 8217>>, <<8228, 8228>>, <<8231, 8231>>, <<8234, 8238>>, <<8288, 8292>>,
       <<8294, 8303>>, <<8305, 8305>>, <<8319, 8319>>, <<8336, 8348>>, <<8400, 8432>>,
       <<11388, 11389>>, <<11503, 11505>>, <<11631, 11631>>, <<11647, 11647>>, <<11744, 11775>>,
       <<11823, 11823>>, <<12293, 12293>>, <<12330, 12333>>, <<12337, 12341>>, <<12347, 12347>>,
       <<12441, 12446>>, <<12540, 12542>>, <<40981, 40981>>, <<42232, 42237>>, <<42508, 42508>>,
       <<42607, 42610>>, <<42612, 42621>>, <<42623, 42623>>, <<42652, 42655>>, <<42736, 42737>>,
       <<42752, 42785>>, <<42864, 42864>>, <<42888, 42890>>, <<42994, 42996>>, <<43000, 43001>>,
       <<43010, 43010>>, <<43014, 43014>>, <<43019, 43019>>, <<43045, 43046>>, <<43052, 43052>>,
       <<43204, 43205>>, <<43232, 43249>>, <<43263, 43263>>, <<43302, 43309>>, <<43335, 43345>>,
       <<43392, 43394>>, <<43443, 43443>>, <<43446, 43449>>, <<43452, 43453>>, <<43471, 43471>>,
       <<43493, 43494>>, <<43561, 43566>>, <<43569, 43570>>, <<43573, 43574>>, <<43587, 43587>>,
       <<43596, 43596>>, <<43632, 43632>>, <<43644, 43644>>, <<43696, 43696>>, <<43698, 43700>>,
       <<43703, 43704>>, <<43710, 43711>>, <<43713, 43713>>, <<43741, 43741>>, <<43756, 43757>>,
       <<43763, 43764>>, <<43766, 43766>>, <<43867, 43871>>, <<43881, 43883>>, <<44005, 44005>>,
       <<44008, 44008>>, <<44013, 44013>>, <<64286, 64286>>, <<64434, 64450>>, <<65024, 65039>>,
       <<65043, 65043>>, <<65056, 65071>>, <<65106, 65106>>, <<65109, 65109>>, <<65279, 65279>>,
       <<65287, 65287>>, <<65294, 65294>>, <<65306, 65306>>, <<65342, 65342>>, <<65344, 65344>>,
       <<65392, 65392>>, <<65438, 65439>>, <<65507, 65507>>, <<65529, 65531>>, <<66045, 66045>>,
       <<66272, 66272>>, <<66422, 66426>>, <<67456, 67461>>, <<67463, 67504>>, <<67506, 67514>>,
       <<68097, 68099>>, <<68101, 68102>>, <<68108, 68111>>, <<68152, 68154>>, <<68159, 68159>>,
       <<68325, 68326>>, <<68900, 68903>>, <<69291, 69292>>, <<69446, 69456>>, <<69506, 69509>>,
       <<69633, 69633>>, <<69688, 69702>>, <<69744, 69744>>, <<69747, 69748>>, <<69759, 69761>>,
       <<69811, 69814>>, <<69817, 69818>>, <<69821, 69821>>, <<69826, 69826>>, <<69837, 69837>>,
       <<69888, 69890>>, <<69927, 69931>>, <<69933, 69940>>, <<70003, 70003>>, <<70016, 70017>>,
       <<70070, 70078>>, <<70089, 70092>>, <<70095, 70095>>, <<70191, 70193>>, <<70196, 70196>>,
       <<70198, 70199>>, <<70206, 70206>>, <<70367, 70367>>, <<70371, 70378>>, <<70400, 70401>>,
       <<70459, 70460>>, <<70464, 70464>>, <<70502, 70508>>, <<70512, 70516>>, <<70712, 70719>>,
       <<70722, 70724>>, <<70726, 70726>>, <<70750, 70750>>, <<70835, 70840>>, <<70842, 70842>>,
       <<70847, 70848>>, <<70850, 70851>>, <<71090, 71093>>, <<71100, 71101>>, <<71103, 71104>>,
       <<71132, 71133>>, <<71219, 71226>>, <<71229, 71229>>, <<71231, 71232>>, <<71339, 71339>>,
       <<71341, 71341>>, <<71344, 71349>>, <<71351, 71351>>, <<71453, 71455>>, <<71458, 71461>>,
       <<71463, 71467>>, <<71727, 71735>>, <<71737, 71738>>, <<71995, 71996>>, <<71998, 71998>>,
       <<72003, 72003>>, <<72148, 72151>>, <<72154, 72155>>, <<72160, 72160>>, <<72193, 72202>>,
       <<72243, 72248>>, <<72251, 72254>>, <<72263, 72263>>, <<72273, 72278>>, <<72281, 72283>>,
       <<72330, 72342>>, <<72344, 72345>>, <<72752, 72758>>, <<72760, 72765>>, <<72767, 72767>>,
       <<72850, 72871>>, <<72874, 72880>>, <<72882, 72883>>, <<72885, 72886>>, <<73009, 73014>>,
       <<73018, 73018>>, <<73020, 73021>>, <<73023, 73029>>, <<73031, 73031>>, <<73104, 73105>>,
       <<73109, 73109>>, <<73111, 73111>>, <<73459, 73460>>, <<78896, 78904>>, <<92912, 92916>>,
       <<92976, 92982>>, <<92992, 92995>>, <<94031, 94031>>, <<94095, 94111>>, <<94176, 94177>>,
       <<94179, 94180>>, <<110576, 110579>>, <<110581, 110587>>, <<110589, 110590>>,
       <<113821, 113822>>, <<113824, 113827>>, <<118528, 118573>>, <<118576, 118598>>,
       <<119143, 119145>>, <<119155, 119170>>, <<119173, 119179>>, <<119210, 119213>>,
       <<119362, 119364>>, <<121344, 121398>>, <<121403, 121452>>, <<121461, 121461>>,
       <<121476, 121476>>, <<121499, 121503>>, <<121505, 121519>>, <<122880, 122886>>,
       <<122888, 122904>>, <<122907, 122913>>, <<122915, 122916>>, <<122918, 122922>>,
       <<123184, 123197>>, <<123566, 123566>>, <<123628, 123631>>, <<125136, 125142>>,
       <<125252, 125259>>, <<127995, 127999>>, <<917505, 917505>>, <<917536, 917631>>,
       <<917760, 917999>> >>

\* c lies in one of the ranges lo..hi of R.
InRanges(c, R) == \E n \in 1..Len(R) : R[n][1] <= c /\ c <= R[n][2]

\* The ranges of WordRanges below 128: [0-9A-Z_a-z].
AsciiWord == (48..57) \cup (65..90) \cup {95} \cup (97..122)

IsWordChar(c) == IF c < 128 THEN c \in AsciiWord ELSE InRanges(c, WordRanges)
IsCased(c) == InRanges(c, CasedRanges)
IsCaseIgnorable(c) == InRanges(c, CaseIgnorableRanges)

\* chr(c).lower() for the code points it maps to one code point; below 128
\* LowerRanges has the one entry <<65, 90, 1, 32>>.
ToLower(c) ==
    IF c < 128 THEN (IF c \in 65..90 THEN c + 32 ELSE c)
    ELSE LET R == LowerRanges
             at == {n \in 1..Len(R) : /\ R[n][1] <= c /\ c <= R[n][2]
                                       /\ (c - R[n][1]) % R[n][3] = 0}
         IN  IF at = {} THEN c ELSE c + R[CHOOSE n \in at : TRUE][4]

\* The indices of s, ascending.
Indices(s) == [i \in 1..Len(s) |-> i]

\* The capital sigma at s[i] stands at the end of a word: a cased character
\* comes before it and none after it, case-ignorable characters skipped.
FinalSigma(s, i) ==
    LET stops == SelectSeq(Indices(s), LAMBDA m : m # i /\ ~IsCaseIgnorable(s[m]))
        before == SelectSeq(stops, LAMBDA m : m < i)
        after == SelectSeq(stops, LAMBDA m : m > i)
    IN  /\ before # <<>>
        /\ IsCased(s[before[Len(before)]])
        /\ after = <<>> \/ ~IsCased(s[after[1]])

\* What str.lower() puts for s[i]: U+03A3 goes by its place, U+0130 becomes
\* two code points, every other character has the mapping of LowerRanges.
LowerAt(s, i) ==
    CASE s[i] = 931 -> << IF FinalSigma(s, i) THEN 962 ELSE 963 >>
      [] s[i] = 304 -> << 105, 775 >>
      [] OTHER -> << ToLower(s[i]) >>

\* str.lower(): the concatenation of LowerAt(s, 1), LowerAt(s, 2), ...; each is
\* one or two code points, laid out in two places of which the unused is -1.
Lower(s) ==
    LET two == [j \in 1..(2 * Len(s)) |->
                   LET piece == LowerAt(s, (j + 1) \div 2)
                   IN  IF j % 2 = 1 THEN piece[1]
                       ELSE IF Len(piece) = 2 THEN piece[2] ELSE -1]
    IN  SelectSeq(two, LAMBDA c : c >= 0)

\* re.sub(r"\s+", " ", text): every run of whitespace becomes one space (the
\* last character of the run is kept, as a space).
CollapseWs(s) ==
    LET kept == SelectSeq(Indices(s),
                          LAMBDA i : ~(/\ s[i] \in Whitespace
                                       /\ i < Len(s) /\ s[i + 1] \in Whitespace))
    IN  [k \in 1..Len(kept) |-> IF s[kept[k]] \in Whitespace THEN 32 ELSE s[kept[k]]]

\* str.strip(): the text between the first and the last character that is no
\* whitespace.
Strip(s) ==
    LET keep == SelectSeq(Indices(s), LAMBDA i : s[i] \notin Whitespace)
    IN  IF keep = <<>> THEN <<>> ELSE SubSeq(s, keep[1], keep[Len(keep)])

\* _norm(text): collapse whitespace, lower-case, strip.
_norm(text) == Strip(Lower(CollapseWs(text)))

\* Where the tokens of t start: at a character that is no word character, and
\* at a word character that does not follow one.
TokenStarts(t) ==
    SelectSeq(Indices(t),
              LAMBDA i : i = 1 \/ ~IsWordChar(t[i]) \/ ~IsWordChar(t[i - 1]))

\* The tokens of a text: its maximal runs of word characters, and each of its
\* other characters.
Tokens(t) ==
    LET at == TokenStarts(t)
    IN  [k \in 1..Len(at) |->
            SubSeq(t, at[k], IF k < Len(at) THEN at[k + 1] - 1 ELSE Len(t))]

RECURSIVE Join(_)
\* The text a token sequence is the tokens of.
Join(toks) == IF toks = <<>> THEN <<>> ELSE Head(toks) \o Join(Tail(toks))

(***************************************************************************)
(* Regular expressions as sets of alternatives.                            *)
(*   la = "none"       the pattern ends in \b after a word token           *)
(*   la = "word"       the pattern ends in \b after "+": a word character  *)
(*                     must follow (c\+\+\b, eval\+\b)                     *)
(*   la = "not_length" the negative lookahead (?![- ]?length) of ARC       *)
(*   pre               characters the pattern goes on to match after toks  *)
(*                     with no \b behind them: the match ends inside the   *)
(*                     next token, which only has to start with pre        *)
(* The tokens of a pattern are written as literals and kept as texts.      *)
(***************************************************************************)
AltOf(toks, la, pre) ==
    [toks |-> [k \in 1..Len(toks) |-> Codes(toks[k])], la |-> la, pre |-> Codes(pre)]
Alt(toks) == AltOf(toks, "none", "")
AltLa(toks, la) == AltOf(toks, la, "")
AltPre(toks, pre) == AltOf(toks, "none", pre)
W(w) == {Alt(<<w>>)}
Ws(S) == {Alt(<<w>>) : w \in S}
Ph(toks) == {Alt(toks)}
Two(a, b) == {Alt(<<a, " ", b>>)}
TwoS(a, S) == {Alt(<<a, " ", b>>) : b \in S}
Sep(a, S, b) == {Alt(<<a, s, b>>) : s \in S}

Lookahead(la, t, j) ==
    CASE la = "none" -> TRUE
      [] la = "word" -> j <= Len(t) /\ IsWordChar(t[j][1])
      [] la = "not_length" ->
            ~(/\ j + 1 <= Len(t)
              /\ t[j] \in {Codes("-"), Codes(" ")}
              /\ StartsWith(t[j + 1], Codes("length")))

MatchAt(a, t, i) ==
    /\ t[i] = a.toks[1]
    /\ i + Len(a.toks) - 1 <= Len(t)
    /\ \A k \in 2..Len(a.toks) : t[i + k - 1] = a.toks[k]
    /\ a.pre # <<>> => /\ i + Len(a.toks) <= Len(t)
                     /\ StartsWith(t[i + Len(a.toks)], a.pre)
    /\ Lookahead(a.la, t, i + Len(a.toks))

\* Some alternative of p matches somewhere in the token sequence.
Search(p, toks) == \E a \in p : \E i \in 1..Len(toks) : MatchAt(a, toks, i)

\* re.search(p, text) is not None
re_search(p, t) == Search(p, Tokens(t))

\* _hit(text, patterns): any(re.search(p, text) for p in patterns)
_hit(t, patterns) ==
    LET toks == Tokens(t) IN \E n \in 1..Len(patterns) : Search(patterns[n], toks)

(***************************************************************************)
(* The module-level pattern lists of scoring.py, as first assigned.        *)
(***************************************************************************)
CORE_CODE_PATTERNS ==
    << Two("code", "generation"),
       Two("program", "synthesis"),
       Ph(<<"text", "-", "to", "-", "code">>),
       Two("source", "code"),
       W("compiler"),
       Ws({"compile", "compiler", "compiled", "compiles"}),
       W("runtime"),
       Two("time", "limit"),
       Two("memory", "limit"),
       Two("wrong", "answer"),
       Two("runtime", "error"),
       TwoS("unit", {"test", "tests"}),
       TwoS("test", {"case", "cases"}),
       Two("online", "judge"),
       Two("competitive", "programming"),
       W("humaneval"),
       W("mbpp"),
       Ph(<<"swe", "-", "bench">>),
       W("codeforces"),
       W("leetcode"),
       Two("kernel", "optimization"),
       W("cuda") >>

SOFT_REASONING_PATTERNS ==
    << W("reasoning"),
       W("planning"),
       Sep("self", {"-", " "}, "consistency"),
       W("reflection"),
       W("verifier") >>

ALGO_PATTERNS ==
    << Two("dynamic", "programming"),
       Ws({"graph", "graphs"}),
       Two("shortest", "path"),
       Ph(<<"minimum", " ", "spanning", " ", "tree">>),
       W("flow"),
       W("matching"),
       W("combinatorics"),
       TwoS("data", {"structure", "structures"}),
       Two("segment", "tree"),
       W("fenwick") >>

ModuleTables ==
    [ CORE_CODE_PATTERNS |-> CORE_CODE_PATTERNS,
      SOFT_REASONING_PATTERNS |-> SOFT_REASONING_PATTERNS,
      ALGO_PATTERNS |-> ALGO_PATTERNS ]

(***************************************************************************)
(* Line 92: ALGO_PATTERNS + [r"\balgorithm(s)?\b"] builds a new list for   *)
(* the "algorithms" group and leaves the module-level list as it was.      *)
(***************************************************************************)
algorithms_patterns(algo) == algo \o << Ws({"algorithm", "algorithms"}) >>

Rule(tag, patterns, pts, reason) ==
    [tag |-> tag, patterns |-> patterns, pts |-> pts, reason |-> reason]

R_code_benchmarks == "References code benchmarks / online-judge evaluation."
R_execution_feedback == "Uses execution/test feedback signals (matches submissions + verdicts)."
R_codegen == "Focuses on code generation / program synthesis."
R_verification == "Centered on correctness/verification (fits accepted vs failing traces)."
R_algorithms == "Mentions classical algorithms/data structures (core SPOJ coverage)."
R_code_tasks == "Explicitly about programming/code tasks."
R_reasoning == "Emphasizes reasoning/planning (secondary but useful for SPOJ)."
R_multilang == "Touches multiple programming languages (SPOJ is multi-language)."

positive_rules(t) ==
    << Rule("code_benchmarks",
            << W("humaneval"), W("mbpp"), Ph(<<"swe", "-", "bench">>), W("codeforces"),
               W("leetcode"), Two("competitive", "programming"), Two("online", "judge") >>,
            35, R_code_benchmarks),
       Rule("execution_feedback",
            << W("runtime"), W("compiler"),
               Ws({"compile", "compiler", "compiled", "compiles"}), W("judge"),
               TwoS("unit", {"test", "tests"}), TwoS("test", {"case", "cases"}),
               Two("wrong", "answer"), Two("runtime", "error"),
               Two("time", "limit"), Two("memory", "limit") >>,
            40, R_execution_feedback),
       Rule("codegen",
            << Two("code", "generation"), W("codegen"), Two("program", "synthesis"),
               Ph(<<"text", "-", "to", "-", "code">>) >>,
            35, R_codegen),
       Rule("verification",
            << W("formal"), W("verification"), W("correctness"), W("prove"),
               Two("static", "analysis"), Two("type", "system"), W("soundness") >>,
            20, R_verification),
       Rule("algorithms", algorithms_patterns(t.ALGO_PATTERNS), 20, R_algorithms),
       Rule("code_tasks",
            << Ws({"program", "programming"}), Two("source", "code"),
               Ws({"debug", "debugging"}), W("patch"), W("bug"), W("cuda"), W("kernel") >>,
            15, R_code_tasks),
       Rule("reasoning", t.SOFT_REASONING_PATTERNS, 10, R_reasoning),
       Rule("multilang",
            << W("python") \cup {AltLa(<<"c", "+", "+">>, "word")} \cup W("java")
               \cup W("rust") \cup W("go") \cup W("javascript") >>,
            5, R_multilang) >>

N_aerospace_robotics == "Primarily robotics/aerospace planning; often not code-judge driven."
N_info_extraction == "Primarily NLP extraction; less aligned with code + verdict training."
N_climate_geo == "Climate/earth-science focus; unlikely to need SPOJ-like data."
N_medical_signals == "Medical/signal processing focus; unlikely to need SPOJ-like data."
N_vision_video == "Video/vision infrastructure; weak link to code-judge training."
N_socio_hci == "HCI/behavioral focus; not code dataset driven."

(***************************************************************************)
(* Importing scoring.py.  Python tokenizes the whole file before it runs   *)
(* any of it.  A backslash outside a string literal is                     *)
(* a line continuation and must be followed by the end of the line; the    *)
(* tokenizer refuses anything else with a SyntaxError, and the import      *)
(* raises it.                                                              *)
(***************************************************************************)
LexOp(c) == [kind |-> "op", then |-> ""]
LexStr == [kind |-> "string", then |-> ""]
LexNum == [kind |-> "number", then |-> ""]
LexBackslash(c) == [kind |-> "backslash", then |-> c]

\* Line 111, the climate_geo row: ( str , [ str , str , str , str , str ] , - 35 ,
Line111 ==
    << LexOp("("), LexStr, LexOp(","), LexOp("["),
       LexStr, LexOp(","), LexStr, LexOp(","), LexStr, LexOp(","), LexStr, LexOp(","), LexStr,
       LexOp("]"), LexOp(","), LexOp("-"), LexNum, LexOp(",") >>

\* Line 113, the medical_signals row, up to the first character the tokenizer
\* refuses: ( str , [ r"\becg\b" , r"\beeg\b" and then a backslash followed by b.
Line113 ==
    << LexOp("("), LexStr, LexOp(","), LexOp("["),
       LexStr, LexOp(","), LexStr, LexBackslash("b") >>

TokenizerAccepts(line) ==
    \A i \in 1..Len(line) : line[i].kind = "backslash" => line[i].then = "\n"

ScoringSource == << Line111, Line113 >>

\* What `import paper_scout.scoring` gives: the module, or the exception.
ImportResult ==
    IF \A n \in 1..Len(ScoringSource) : TokenizerAccepts(ScoringSource[n])
    THEN "imported"
    ELSE "SyntaxError"

(***************************************************************************)
(* negative_rules, lines 105-119.  Line 113 reads                          *)
(*     [r"\becg\b", r"\beeg\b"\bppg\b", r"\bclinical\b", ...]              *)
(* the third literal has lost its opening `, r"`, and the line does not    *)
(* lex: the list is never built, and neither is anything else of the       *)
(* file.  The five other rows are as written; the medical_signals row      *)
(* holds the two literals the tokenizer reads before it stops.             *)
(***************************************************************************)
negative_rules ==
    IF ~TokenizerAccepts(Line113) THEN "SyntaxError"
    ELSE
    << Rule("aerospace_robotics",
            << W("uav"), W("airspace"), W("flight"), W("preflight"), W("robot"),
               W("manipulation"), Ws({"grasp", "grasping"}), W("trajectory"), W("control") >>,
            -25, N_aerospace_robotics),
       Rule("info_extraction",
            << Two("triplet", "extraction"), Two("information", "extraction"),
               Two("financial", "report") >>,
            -15, N_info_extraction),
       Rule("climate_geo",
            << W("climate"), W("precipitation"), W("hydro"), Two("river", "basin"), W("cmip") >>,
            -35, N_climate_geo),
       Rule("medical_signals", << W("ecg"), W("eeg") >>, -35, N_medical_signals),
       Rule("vision_video",
            << W("video"), W("codec"), W("keyframe"), Two("motion", "vectors"),
               Two("image", "encoder") >>,
            -20, N_vision_video),
       Rule("socio_hci",
            << W("loneliness"), W("attachment"), W("companion"), W("survey") >>,
            -20, N_socio_hci) >>

FallbackNeg == "Low direct relevance to code-judge training; likely not SPOJ-driven."
FallbackNone == "Low direct relevance signals found; needs manual review."

(***************************************************************************)
(* benchmarks.py: BENCHMARKS in declaration (dict insertion) order, and    *)
(* extract_benchmarks.                                                     *)
(***************************************************************************)
Min(a, b) == IF a < b THEN a ELSE b
Max(a, b) == IF a > b THEN a ELSE b

Bench(name, weight, patterns) == [name |-> name, weight |-> weight, patterns |-> patterns]

BENCHMARKS ==
    << Bench("SWE-bench", 45, << Sep("swe", {"-", " "}, "bench"), W("swebench") >>),
       Bench("HumanEval", 40, << Sep("human", {"-", " "}, "eval") \cup W("humaneval") >>),
       Bench("MBPP", 35, << W("mbpp") >>),
       Bench("Codeforces", 35, << W("codeforces") >>),
       Bench("LeetCode", 25, << Two("leet", "code") \cup W("leetcode") >>),
       Bench("APPS", 25, << W("apps") \cup {AltPre(<<"apps", " ">>, "dataset")} >>),
       Bench("DS-1000", 25, << Sep("ds", {"-", " "}, "1000") \cup W("ds1000") >>),
       Bench("EvalPlus", 20, << W("evalplus"), {AltLa(<<"eval", "+">>, "word")} >>),
       Bench("LiveCodeBench", 30,
             << W("livecodebench"), Ph(<<"live", " ", "code", " ", "bench">>) >>),
       Bench("CodeContests", 25, << W("codecontests"), Two("code", "contests") >>),
       Bench("CruxEval", 20, << W("cruxeval") >>),
       Bench("RepoBench", 25, << W("repobench"), Sep("repo", {"-", " "}, "bench") >>),
       Bench("CodeSearchNet", 15,
             << W("codesearchnet"), Ph(<<"code", " ", "search", " ", "net">>) >>),
       Bench("MMLU", 15, << W("mmlu") >>),
       Bench("MMMU", 15, << W("mmmu") >>),
       Bench("GSM8K", 10, << W("gsm8k") >>),
       Bench("ARC", 8, << {AltLa(<<"arc">>, "not_length")} >>),
       Bench("HellaSwag", 8, << W("hellaswag") >>),
       Bench("TruthfulQA", 8, << W("truthfulqa") >>),
       Bench("Big-Bench", 8, << Sep("big", {"-", " "}, "bench"), W("bbh") >>) >>

\* The index of the first pattern of the list that matches the text of tokens
\* t, 0 when none does (the inner loop of extract_benchmarks, left by break at
\* the first match).
FirstMatch(patterns, t) ==
    IF \E n \in 1..Len(patterns) : Search(patterns[n], t)
    THEN CHOOSE n \in 1..Len(patterns) :
            /\ Search(patterns[n], t)
            /\ \A m \in 1..(n - 1) : ~Search(patterns[m], t)
    ELSE 0

\* The number of characters an alternative matches.
Width(a) == Len(Join(a.toks)) + Len(a.pre)

MatchesAt(p, t, i) == {a \in p : MatchAt(a, t, i)}

\* m = re.search(p, t) for a pattern that matches the text t: the leftmost
\* match, and at that place the longest alternative (the optional parts are
\* greedy).  start and end are m.start() and m.end(), offsets in characters.
re_search_span(p, t) ==
    LET toks == Tokens(t)
        i == CHOOSE i \in 1..Len(toks) :
                /\ MatchesAt(p, toks, i) # {}
                /\ \A j \in 1..(i - 1) : MatchesAt(p, toks, j) = {}
        a == CHOOSE a \in MatchesAt(p, toks, i) :
                \A b \in MatchesAt(p, toks, i) : Width(b) <= Width(a)
        start == TokenStarts(t)[i] - 1
    IN  [start |-> start, end |-> start + Width(a)]

EvidenceMargin == 30

\* Lines 57-59: t[max(0, m.start() - 30) : min(len(t), m.end() + 30)]
Evidence(t, m) ==
    LET start == Max(0, m.start - EvidenceMargin)
        end == Min(Len(t), m.end + EvidenceMargin)
    IN  SubSeq(t, start + 1, end)

\* The dataclass of lines 8-12.
BenchmarkHit(name, weight, evidence) ==
    [name |-> name, weight |-> weight, evidence |-> evidence]

RECURSIVE CollectHits(_, _, _)
\* The outer loop over BENCHMARKS.items(), from entry i on, for the text t
\* whose tokens are toks.
CollectHits(i, t, toks) ==
    IF i > Len(BENCHMARKS) THEN <<>>
    ELSE LET b == BENCHMARKS[i]
             n == FirstMatch(b.patterns, toks)
         IN  (IF n > 0
              THEN << BenchmarkHit(b.name, b.weight,
                                   Evidence(t, re_search_span(b.patterns[n], t))) >>
              ELSE <<>>)
             \o CollectHits(i + 1, t, toks)

\* Where a hit goes in a list already sorted: behind every hit at least as heavy.
InsertTiesReversed(h, sorted) ==
    LET k == Cardinality({j \in 1..Len(sorted) : sorted[j].weight > h.weight})
    IN  SubSeq(sorted, 1, k) \o <<h>> \o SubSeq(sorted, k + 1, Len(sorted))

InsertByWeight(h, sorted) ==
    LET k == Cardinality({j \in 1..Len(sorted) : sorted[j].weight >= h.weight})
    IN  SubSeq(sorted, 1, k) \o <<h>> \o SubSeq(sorted, k + 1, Len(sorted))

RECURSIVE SortHits(_, _)
\* hits.sort(key=lambda h: h.weight, reverse=True): Python's sort is stable, and
\* stays so under reverse=True.
SortHits(hs, sorted) ==
    IF hs = <<>> THEN sorted
    ELSE SortHits(Tail(hs), InsertByWeight(Head(hs), sorted))

extract_benchmarks(text) ==
    LET t == _norm(text) IN SortHits(CollectHits(1, t, Tokens(t)), <<>>)

(***************************************************************************)
(* scoring.py: score_spoj_fit.                                             *)
(***************************************************************************)
GateCeiling == 35
ScoreMax == 100
MaxReasons == 3
MaxTags == 8

\* Line 75: p.title + " " + (p.abstract or "")
JoinedText(p) == p.title \o Codes(" ") \o p.abstract

RECURSIVE ApplyPositive(_, _, _, _)
\* Lines 126-130, from rule i on; acc holds score, tags and reasons_pos.
ApplyPositive(rules, i, text, acc) ==
    IF i > Len(rules) THEN acc
    ELSE LET r == rules[i]
         IN  IF _hit(text, r.patterns)
             THEN ApplyPositive(rules, i + 1, text,
                     [acc EXCEPT !.score = @ + r.pts,
                                 !.tags = Append(@, r.tag),
                                 !.reasons_pos = Append(@, r.reason)])
             ELSE ApplyPositive(rules, i + 1, text, acc)

\* int(pts / 2): true division, then truncation toward zero.
IntHalf(pts) == IF pts >= 0 THEN pts \div 2 ELSE -((-pts) \div 2)

\* Lines 135-139: what a firing negative rule adds to the score.
Penalty(pts, core_code_signal) ==
    IF core_code_signal THEN IntHalf(pts) ELSE pts

RECURSIVE ApplyNegative(_, _, _, _, _)
\* Lines 133-141, from rule i on; acc holds score, tags and reasons_neg.
ApplyNegative(rules, i, text, core_code_signal, acc) ==
    IF i > Len(rules) THEN acc
    ELSE LET r == rules[i]
         IN  IF _hit(text, r.patterns)
             THEN ApplyNegative(rules, i + 1, text, core_code_signal,
                     [acc EXCEPT !.score = @ + Penalty(r.pts, core_code_signal),
                                 !.tags = Append(@, r.tag),
                                 !.reasons_neg = Append(@, r.reason)])
             ELSE ApplyNegative(rules, i + 1, text, core_code_signal, acc)

\* Lines 144-145.
Gate(score, core_code_signal) ==
    IF ~core_code_signal THEN Min(score, GateCeiling) ELSE score

\* Line 147.
Clamp(score) == Max(0, Min(ScoreMax, score))

InSeq(x, s) == \E i \in 1..Len(s) : s[i] = x

RECURSIVE TakeReasons(_, _, _)
\* Lines 149-154: the loop over reasons_pos, from index i on.
TakeReasons(reasons_pos, i, reasons) ==
    IF i > Len(reasons_pos) THEN reasons
    ELSE LET next == IF InSeq(reasons_pos[i], reasons)
                     THEN reasons ELSE Append(reasons, reasons_pos[i])
         IN  IF Len(next) >= MaxReasons THEN next
             ELSE TakeReasons(reasons_pos, i + 1, next)

\* Lines 149-160.
SelectReasons(reasons_pos, reasons_neg) ==
    LET reasons == TakeReasons(reasons_pos, 1, <<>>)
    IN  IF reasons = <<>>
        THEN IF reasons_neg # <<>>
             THEN << reasons_neg[1], FallbackNeg >>
             ELSE << FallbackNone >>
        ELSE reasons

RECURSIVE Unique(_, _)
\* Lines 162-165: first occurrences, in order.
Unique(tags, tags_unique) ==
    IF tags = <<>> THEN tags_unique
    ELSE Unique(Tail(tags),
                IF InSeq(Head(tags), tags_unique) THEN tags_unique
                ELSE Append(tags_unique, Head(tags)))

\* s[:n]
Take(s, n) == SubSeq(s, 1, Min(n, Len(s)))

\* Line 167: tags_unique[:8]
ReturnedTags(tags) == Take(Unique(tags, <<>>), MaxTags)

\* FitResult(score=..., tags=..., reasons=...): the dataclass of lines 10-14
\* has these three fields and no other.
FitResult(score, tags, reasons) == [score |-> score, tags |-> tags, reasons |-> reasons]

\* score_spoj_fit(p) with the module-level lists t, as a caller gets it from
\* scoring.py: the exception of the import when the file does not import, and
\* else the FitResult returned (fr) with the function's locals as they stand
\* at the return (loc).
score_spoj_fit(p, t) ==
    IF ImportResult # "imported" THEN [raised |-> ImportResult]
    ELSE
    LET text == _norm(JoinedText(p))
        core_code_signal == _hit(text, t.CORE_CODE_PATTERNS)
        pos == ApplyPositive(positive_rules(t), 1, text,
                             [score |-> 0, tags |-> <<>>, reasons_pos |-> <<>>])
        neg == ApplyNegative(negative_rules, 1, text, core_code_signal,
                             [score |-> pos.score, tags |-> pos.tags, reasons_neg |-> <<>>])
        score == Clamp(Gate(neg.score, core_code_signal))
    IN  [ raised |-> "none",
          fr |-> FitResult(score, ReturnedTags(neg.tags),
                           SelectReasons(pos.reasons_pos, neg.reasons_neg)),
          loc |-> [ text |-> text,
                    core_code_signal |-> core_code_signal,
                    score_pos |-> pos.score,
                    score_neg |-> neg.score,
                    tags |-> neg.tags,
                    reasons_pos |-> pos.reasons_pos,
                    reasons_neg |-> neg.reasons_neg ] ]

(***************************************************************************)
(* The documents of the model: a title, and an abstract made of up to      *)
(* MaxPhrases of the phrases below, in the order listed, joined by a run   *)
(* of whitespace.                                                          *)
(***************************************************************************)
Phrases ==
    << "HumanEval",
       "MBPP and Codeforces",
       "APPS and leet code",
       "MMLU (eval+) eval+x",
       "Judge",
       "Unit\ntests",
       "codegen",
       "competitive programming",
       "Formal\t verification of graph algorithms",
       "reasoning in Python",
       "source code",
       "robot control",
       "information extraction from climate video",
       "clinical ECG classification",
       "survey",
       "pull request, patch" >>

Titles ==
    { "",
      "SWE-bench",
      "Swe\fBench:\r\nswebench",
      "Apps datasets of Arc-lengths" }

Joiner == " \n"

RECURSIVE JoinPhrases(_, _)
\* The phrases with index in S, from index k on, in index order.
JoinPhrases(S, k) ==
    IF k > Len(Phrases) THEN ""
    ELSE IF k \in S
         THEN LET rest == JoinPhrases(S, k + 1)
              IN  IF rest = "" THEN Phrases[k] ELSE Phrases[k] \o Joiner \o rest
         ELSE JoinPhrases(S, k + 1)

PhraseSets == {S \in SUBSET (1..Len(Phrases)) : Cardinality(S) <= MaxPhrases}

\* models.py: a Paper as the fetcher builds it (the fields the scorer reads,
\* and the enrichment fields at their defaults; None is the empty sequence).
\* title and abstract are given as literals.
Paper(title, abstract) ==
    [ title |-> Codes(title),
      abstract |-> Codes(abstract),
      spoj_fit_score |-> <<>>,
      spoj_fit_tags |-> <<>>,
      spoj_fit_reasons |-> <<>>,
      spoj_benchmarks |-> <<>> ]

NotRun == [ran |-> FALSE, out |-> <<>>]

InitRest ==
    /\ calls = <<>>
    /\ hits = NotRun
    /\ module = "not_imported"
    /\ pitch = NotRun
    /\ deduped = <<>>

Init ==
    /\ \E title \in Titles : \E S \in PhraseSets :
          papers = << Paper(title, JoinPhrases(S, 1)) >>
    /\ InitRest

(***************************************************************************)
(* Operations.                                                             *)
(***************************************************************************)
\* main.py line 11: from paper_scout.scoring import score_spoj_fit, one of the
\* imports main.py makes before it runs anything else.  An exception raised
\* here ends the program.
ImportScoring ==
    /\ module = "not_imported"
    /\ module' = ImportResult
    /\ UNCHANGED <<papers, calls, hits, pitch, deduped>>

\* The program.  Its import of scoring.py raises, so the rest of main() (the
\* fetch, dedupe_papers at line 49, the scoring loop of lines 52-57, the
\* reports) is never reached and is no step of the program.
Next == ImportScoring

Spec == Init /\ [][Next]_vars

\* A caller's  from paper_scout.scoring import score_spoj_fit;
\* fr = score_spoj_fit(papers[k]).  A module that failed to import is not kept,
\* so every call attempts the import again and ends in its exception.  A call
\* that returns has assigned to no attribute of p and to no module-level name.
ScoreCall(k) ==
    /\ k \in 1..Len(papers)
    /\ calls' = Append(calls,
            [ idx |-> k,
              doc |-> [title |-> papers[k].title, abstract |-> papers[k].abstract] ]
            @@ score_spoj_fit(papers[k], ModuleTables))
    /\ module' = ImportResult
    /\ UNCHANGED <<papers, hits, pitch, deduped>>

Score == calls = <<>> /\ ScoreCall(1)

NextScore == Score

SpecScore == Init /\ [][NextScore]_vars

\* extract_benchmarks(title + " " + abstract) for papers[1].  benchmarks.py
\* imports nothing of scoring.py; nothing in the repository calls the function.
Extract ==
    /\ ~hits.ran
    /\ hits' = [ran |-> TRUE, out |-> extract_benchmarks(JoinedText(papers[1]))]
    /\ UNCHANGED <<papers, calls, module, pitch, deduped>>

NextExtract == Extract

SpecExtract == Init /\ [][NextExtract]_vars

(***************************************************************************)
(* Pairs of documents that differ in one phrase carrying a core-code       *)
(* pattern: the first has none, the second is the first plus that phrase.  *)
(***************************************************************************)
CorePhrases ==
    {k \in 1..Len(Phrases) : _hit(_norm(Codes(Phrases[k])), CORE_CODE_PATTERNS)}

CoreFreeTitles == {title \in Titles : ~_hit(_norm(Codes(title)), CORE_CODE_PATTERNS)}

InitPair ==
    /\ \E title \in CoreFreeTitles : \E S \in PhraseSets : \E c \in CorePhrases :
          /\ S \cap CorePhrases = {}
          /\ papers = << Paper(title, JoinPhrases(S, 1)),
                         Paper(title, JoinPhrases(S \cup {c}, 1)) >>
    /\ InitRest

\* Each paper of the pair is scored once, in either order.
ScorePair ==
    \E k \in 1..Len(papers) :
        /\ \A i \in 1..Len(calls) : calls[i].idx # k
        /\ ScoreCall(k)

NextPair == ScorePair

SpecPair == InitPair /\ [][NextPair]_vars

(***************************************************************************)
(* A fixed list of papers scored again and again, in any order; two of the *)
(* papers are distinct objects with the same title and abstract.           *)
(***************************************************************************)
CallPapers ==
    << Paper("", ""),
       Paper("", JoinPhrases({5}, 1)),
       Paper("SWE-bench", JoinPhrases({6, 9}, 1)),
       Paper("", JoinPhrases({9, 10, 13}, 1)),
       Paper("", JoinPhrases({14}, 1)),
       Paper("", JoinPhrases({6, 14, 15}, 1)),
       Paper("SWE-bench", JoinPhrases({6, 9}, 1)),
       Paper("", JoinPhrases({8, 9, 10, 12, 13}, 1)) >>

InitCalls ==
    /\ papers = CallPapers
    /\ InitRest

ScoreAny ==
    \E k \in 1..Len(papers) :
        /\ Len(calls) < MaxCalls
        /\ ScoreCall(k)

NextCalls == ScoreAny

SpecCalls == InitCalls /\ [][NextCalls]_vars

(***************************************************************************)
(* pitch.py: build_spoj_pitch.                                             *)
(***************************************************************************)
MaxBullets == 3

B_repo == "Repo-level code editing + real-world patching signals match SPOJ-style iterative attempts + verdicts."
B_codegen == "Strong code-gen evaluation focus → SPOJ adds scale + multi-language + harder long-tail problems."
B_competitive == "Competitive-programming / algorithmic eval → direct overlap with SPOJ problem distribution."
B_verification == "Correctness/verification angle → SPOJ provides accepted vs failing traces and error modes."
B_core_code == "Execution/test/verdict signals → SPOJ provides structured feedback labels at massive scale."
B_agents_tools == "Agentic coding/tool use → SPOJ supports verifiable tool-loop training via judge feedback."

One_repo == "SPOJ can complement your repo-level coding evaluations with large-scale judged submissions (multi-language, verdict-labeled, iterative attempts)."
One_codegen == "SPOJ can extend code-generation evaluation/training with 35k algorithmic tasks and 30M verdict-labeled submissions across languages."
One_competitive == "SPOJ is a direct fit: competirogramming style problems + millions of submissions with judge verdicts and error modes."
One_core == "SPOJ provides scalable, verifiable training/eval data: judged code submissions with timestamps, languages, and failure modes."
One_catch_all == "Potential SPOJ fit: large-scale code+verdict data may complement your evaluation/training pipeline."

\* set(xs)
ToSet(xs) == {xs[i] : i \in 1..Len(xs)}

\* Lines 16-29: one `if` after the other, each appending its bullet.
PitchBullets(tags, benches) ==
    (IF "SWE-bench" \in benches \/ "RepoBench" \in benches THEN <<B_repo>> ELSE <<>>)
    \o (IF {"HumanEval", "MBPP", "EvalPlus"} \cap benches # {} THEN <<B_codegen>> ELSE <<>>)
    \o (IF "APPS" \in benches \/ "Codeforces" \in benches \/ "CodeContests" \in benches
        THEN <<B_competitive>> ELSE <<>>)
    \o (IF "verition" \in tags THEN <<B_verification>> ELSE <<>>)
    \o (IF "core_code" \in tags THEN <<B_core_code>> ELSE <<>>)
    \o (IF "agents_tools" \in tags THEN <<B_agents_tools>> ELSE <<>>)

\* Lines 32-41: the if/elif chain.
PitchOne(tags, benches) ==
    IF "SWE-bench" \in benches \/ "RepoBench" \in benches THEN One_repo
    ELSE IF {"HumanEval", "MBPP", "EvalPlus"} \cap benches # {} THEN One_codegen
    ELSE IF "APPS" \in benches \/ "Codeforces" \in benches \/ "CodeContests" \in benches
         THEN One_competitive
    ELSE IF "core_code" \in tags \/ "verification" \in tags THEN One_core
    ELSE One_catch_all

\* The bullets returned without the [:3] slice.
ReturnedBulletsUncut(bullets) == bullets

\* Line 43: bullets[:3]
ReturnedBullets(bullets) == Take(bullets, MaxBullets)

\* build_spoj_pitch(p): the pair (one, bullets[:3]).
build_spoj_pitch(p) ==
    LET tags == ToSet(p.spoj_fit_tags)
        benches == ToSet(p.spoj_benchmarks)
    IN  [ one |-> PitchOne(tags, benches),
          bullets |-> ReturnedBullets(PitchBullets(tags, benches)) ]

(***************************************************************************)
(* The papers a pitch is built for: enriched papers whose tags and         *)
(* benchmarks are lists over the names below, in the order listed or in    *)
(* the reverse order.                                                      *)
(***************************************************************************)
PitchTags == << "verification", "verition", "core_code", "agents_tools", "algorithms" >>

PitchBenches ==
    << "SWE-bench", "RepoBench", "HumanEval", "MBPP", "EvalPlus",
       "APPS", "Codeforces", "CodeContests", "MMLU" >>

\* The elements of the sequence universe that are in S, in their order.
ListOf(universe, S) == SelectSeq(universe, LAMBDA x : x \in S)

Reverse(s) == [i \in 1..Len(s) |-> s[Len(s) + 1 - i]]

EnrichedPaper(tags, benchmarks) ==
    [Paper("", "") EXCEPT !.spoj_fit_tags = tags, !.spoj_benchmarks = benchmarks]

InitPitch ==
    /\ \E T \in SUBSET ToSet(PitchTags) : \E B \in SUBSET ToSet(PitchBenches) :
       \E reversed \in BOOLEAN :
          LET tags == ListOf(PitchTags, T)
              benchmarks == ListOf(PitchBenches, B)
          IN  papers = << EnrichedPaper(IF reversed THEN Reverse(tags) ELSE tags,
                                        IF reversed THEN Reverse(benchmarks) ELSE benchmarks) >>
    /\ InitRest

\* build_spoj_pitch(papers[1]), as pdf_report.py line 206 calls it.  pitch.py
\* imports nothing of scoring.py.
BuildPitch ==
    /\ ~pitch.ran
    /\ pitch' = [ran |-> TRUE, out |-> build_spoj_pitch(papers[1])]
    /\ UNCHANGED <<papers, calls, hits, module, deduped>>

NextPitch == BuildPitch

SpecPitch == InitPitch /\ [][NextPitch]_vars

(***************************************************************************)
(* dedupe.py: stable_paper_key and dedupe_papers.  An id that is None or   *)
(* the empty string is the empty str.                                      *)
(***************************************************************************)
MaxPapers == 3
MaxRuns == 2

\* p.id and p.id.startswith("arxiv:"): the comparison is case-sensitive.
IsArxivId(id) == id # <<>> /\ StartsWith(id, Codes("arxiv:"))

\* Lines 15-17: f"{p.title}|{first_author}|{year}".lower().strip(), one str.
RawKey(p) ==
    LET first_author == IF p.authors # <<>> THEN p.authors[1] ELSE <<>>
        year == IF p.published_at # <<>> THEN Codes(ToString(p.published_at[1].year)) ELSE <<>>
    IN  Strip(Lower(p.title \o Codes("|") \o first_author \o Codes("|") \o year))

(***************************************************************************)
(* hashlib.sha256 (FIPS 180-4) over raw.encode("utf-8").  A 32-bit word is *)
(* the pair <<high 16 bits, low 16 bits>>.                                 *)
(***************************************************************************)
\* str.encode("utf-8") raises UnicodeEncodeError for a lone surrogate.
CanEncode(s) == \A i \in 1..Len(s) : s[i] \notin 55296..57343

\* The n-th of the bytes UTF-8 writes for the code point c, or -1.
Utf8Byte(c, n) ==
    CASE c < 128 -> IF n = 1 THEN c ELSE -1
      [] c >= 128 /\ c < 2048 ->
            CASE n = 1 -> 192 + (c \div 64)
              [] n = 2 -> 128 + (c % 64)
              [] OTHER -> -1
      [] c >= 2048 /\ c < 65536 ->
            CASE n = 1 -> 224 + (c \div 4096)
              [] n = 2 -> 128 + ((c \div 64) % 64)
              [] n = 3 -> 128 + (c % 64)
              [] OTHER -> -1
      [] OTHER ->
            CASE n = 1 -> 240 + (c \div 262144)
              [] n = 2 -> 128 + ((c \div 4096) % 64)
              [] n = 3 -> 128 + ((c \div 64) % 64)
              [] OTHER -> 128 + (c % 64)

\* s.encode("utf-8"), for a str that can be encoded.
Utf8(s) ==
    LET four == [j \in 1..(4 * Len(s)) |-> Utf8Byte(s[(j + 3) \div 4], ((j - 1) % 4) + 1)]
    IN  SelectSeq(four, LAMBDA b : b >= 0)

\* The message padded to whole blocks of 64 bytes: the byte 0x80, zeros, and
\* the length in bits as 8 bytes, the high byte first.
Padded(bytes) ==
    LET n == Len(bytes)
        total == (((n + 8) \div 64) + 1) * 64
    IN  [i \in 1..total |->
            CASE i <= n -> bytes[i]
              [] i = n + 1 -> 128
              [] i = total -> (8 * n) % 256
              [] i = total - 1 -> ((8 * n) \div 256) % 256
              [] i = total - 2 -> ((8 * n) \div 65536) % 256
              [] i = total - 3 -> ((8 * n) \div 16777216) % 256
              [] OTHER -> 0]

\* a & b, for a, b < 65536, four bits at a time
BitAnd(a, b) ==
    LET And4(c, d) ==
            ((c % 2) * (d % 2)) + (2 * (((c \div 2) % 2) * ((d \div 2) % 2)))
                + (4 * (((c \div 4) % 2) * ((d \div 4) % 2))) + (8 * ((c \div 8) * (d \div 8)))
    IN  And4(a % 16, b % 16) + (16 * And4((a \div 16) % 16, (b \div 16) % 16))
            + (256 * And4((a \div 256) % 16, (b \div 256) % 16))
            + (4096 * And4(a \div 4096, b \div 4096))

\* a ^ b
BitXor(a, b) == (a + b) - (2 * BitAnd(a, b))

And32(x, y) == << BitAnd(x[1], y[1]), BitAnd(x[2], y[2]) >>
Xor32(x, y) == << BitXor(x[1], y[1]), BitXor(x[2], y[2]) >>

\* (x + y) mod 2^32
Add32(x, y) ==
    LET lo == x[2] + y[2]
    IN  << (x[1] + y[1] + (lo \div 65536)) % 65536, lo % 65536 >>

\* x >> n, for n < 16
ShR(x, n) ==
    << x[1] \div (2 ^ n), (x[2] \div (2 ^ n)) + ((x[1] % (2 ^ n)) * (2 ^ (16 - n))) >>

\* x rotated right by n, for n < 32
RotR(x, n) ==
    LET y == IF n >= 16 THEN << x[2], x[1] >> ELSE x
        m == n % 16
    IN  << (y[1] \div (2 ^ m)) + ((y[2] % (2 ^ m)) * (2 ^ (16 - m))),
           (y[2] \div (2 ^ m)) + ((y[1] % (2 ^ m)) * (2 ^ (16 - m))) >>

Ch(x, y, z) == Xor32(And32(x, y), And32(<< 65535 - x[1], 65535 - x[2] >>, z))
Maj(x, y, z) == Xor32(Xor32(And32(x, y), And32(x, z)), And32(y, z))
BigSigma0(x) == Xor32(Xor32(RotR(x, 2), RotR(x, 13)), RotR(x, 22))
BigSigma1(x) == Xor32(Xor32(RotR(x, 6), RotR(x, 11)), RotR(x, 25))
SmallSigma0(x) == Xor32(Xor32(RotR(x, 7), RotR(x, 18)), ShR(x, 3))
SmallSigma1(x) == Xor32(Xor32(RotR(x, 17), RotR(x, 19)), ShR(x, 10))

InitialHash ==
    << <<27145, 58983>>, <<47975, 44677>>, <<15470, 62322>>, <<42319, 62778>>,
       <<20750, 21119>>, <<39685, 26764>>, <<8067, 55723>>, <<23520, 52505>> >>

RoundConstants ==
    << <<17034, 12184>>, <<28983, 17553>>, <<46528, 64463>>, <<59829, 56229>>,
       <<14678, 49755>>, <<23025, 4593>>, <<37439, 33444>>, <<43804, 24277>>,
       <<55303, 43672>>, <<4739, 23297>>, <<9265, 34238>>, <<21772, 32195>>,
       <<29374, 23924>>, <<32990, 45566>>, <<39900, 1703>>, <<49563, 61812>>,
       <<58523, 27073>>, <<61374, 18310>>, <<4033, 40390>>, <<9228, 41420>>,
       <<11753, 11375>>, <<19060, 33962>>, <<23728, 43484>>, <<30457, 35034>>,
       <<38974, 20818>>, <<43057, 50797>>, <<45059, 10184>>, <<48985, 32711>>,
       <<50912, 3059>>, <<54695, 37191>>, <<1738, 25425>>, <<5161, 10599>>,
       <<10167, 2693>>, <<11803, 8504>>, <<19756, 28156>>, <<21304, 3347>>,
       <<25866, 29524>>, <<30314, 2747>>, <<33218, 51502>>, <<37490, 11397>>,
       <<41663, 59553>>, <<43034, 26187>>, <<49739, 35696>>, <<51052, 20899>>,
       <<53650, 59417>>, <<54937, 1572>>, <<62478, 13701>>, <<4202, 41072>>,
       <<6564, 49430>>, <<7735, 27656>>, <<10056, 30540>>, <<13488, 48309>>,
       <<14620, 3251>>, <<20184, 43594>>, <<23452, 51791>>, <<26670, 28659>>,
       <<29839, 33518>>, <<30885, 25455>>, <<33992, 30740>>, <<36039, 520>>,
       <<37054, 65530>>, <<42064, 27883>>, <<48889, 41975>>, <<50801, 30962>> >>

\* The 16 words of the k-th block (k from 0) of the padded message.
BlockWords(msg, k) ==
    [t \in 1..16 |->
        LET at == (64 * k) + (4 * (t - 1))
        IN  << (msg[at + 1] * 256) + msg[at + 2], (msg[at + 3] * 256) + msg[at + 4] >>]

RECURSIVE ExtendTo(_, _)
\* The message schedule up to its n-th word, given its first words.
ExtendTo(w, n) ==
    LET t == Len(w) + 1
    IN  IF t > n THEN w
        ELSE ExtendTo(Append(w, Add32(Add32(SmallSigma1(w[t - 2]), w[t - 7]),
                                      Add32(SmallSigma0(w[t - 15]), w[t - 16]))), n)

\* The message schedule of a block: 64 words.
Schedule(w) ==
    ExtendTo(ExtendTo(ExtendTo(ExtendTo(ExtendTo(ExtendTo(w, 24), 32), 40), 48), 56), 64)

\* One round on the working variables <<a, b, c, d, e, f, g, h>>.
Round(s, k, w) ==
    LET Worked(T1, T2) ==
            << Add32(T1, T2), s[1], s[2], s[3], Add32(s[4], T1), s[5], s[6], s[7] >>
    IN  Worked(Add32(Add32(Add32(s[8], BigSigma1(s[5])), Add32(Ch(s[5], s[6], s[7]), k)), w),
               Add32(BigSigma0(s[1]), Maj(s[1], s[2], s[3])))

RECURSIVE RoundsTo(_, _, _)
\* The working variables before the first round and after each of the rounds
\* 1..n, given those up to some round.
RoundsTo(ss, w, n) ==
    IF Len(ss) > n THEN ss
    ELSE RoundsTo(Append(ss, Round(ss[Len(ss)], RoundConstants[Len(ss)], w[Len(ss)])), w, n)

\* The hash value after one more block: 64 rounds on its message schedule,
\* and the working variables added to the hash value.
Compress(h, block) ==
    LET Sum(s) ==
            << Add32(h[1], s[1]), Add32(h[2], s[2]), Add32(h[3], s[3]), Add32(h[4], s[4]),
               Add32(h[5], s[5]), Add32(h[6], s[6]), Add32(h[7], s[7]), Add32(h[8], s[8]) >>
        Rounds(w) ==
            RoundsTo(RoundsTo(RoundsTo(RoundsTo(RoundsTo(RoundsTo(RoundsTo(RoundsTo(<<h>>,
                w, 8), w, 16), w, 24), w, 32), w, 40), w, 48), w, 56), w, 64)
    IN  Sum(Rounds(Schedule(block))[65])

RECURSIVE HashBlocks(_, _)
\* The hash values before the first block and after each block of the padded
\* message, given those up to some block.
HashBlocks(hs, msg) ==
    IF 64 * (Len(hs) - 1) >= Len(msg) THEN hs
    ELSE HashBlocks(Append(hs, Compress(hs[Len(hs)], BlockWords(msg, Len(hs) - 1))), msg)

\* The four hex digits of a 16-bit number, lower case.
Hex4(n) ==
    LET digit(d) == IF d < 10 THEN 48 + d ELSE 87 + d
    IN  << digit(n \div 4096), digit((n \div 256) % 16), digit((n \div 16) % 16), digit(n % 16) >>

\* hashlib.sha256(raw.encode("utf-8")).hexdigest()[:16], for a raw that can be
\* encoded.
Sha256Hex16(raw) ==
    LET Hex(h) == Hex4(h[1][1]) \o Hex4(h[1][2]) \o Hex4(h[2][1]) \o Hex4(h[2][2])
        Last(hs) == hs[Len(hs)]
    IN  Hex(Last(HashBlocks(<<InitialHash>>, Padded(Utf8(raw)))))

(***************************************************************************)
(* The papers of the model: up to MaxPapers of the papers below, in any    *)
(* order and with repeats; ref tells the objects of a list apart.  The     *)
(* title of the second paper and of the last ends in the lone surrogate    *)
(* U+D800; the two papers before the last have different texts with the   *)
(* same first 16 hex digits of SHA-256.                                    *)
(***************************************************************************)
\* id, title and the authors are given as literals.
FetchedPaper(id, title, authors, published_at) ==
    [ id |-> Codes(id),
      title |-> Codes(title),
      authors |-> [k \in 1..Len(authors) |-> Codes(authors[k])],
      published_at |-> published_at ]

Year(y) == << [year |-> y] >>

PaperPool ==
    { FetchedPaper("arxiv:2401.00001", "SWE-bench", <<"Knuth">>, Year(2024)),
      [FetchedPaper("arxiv:2401.00002", "SWE-bench", <<"Knuth">>, Year(2024))
          EXCEPT !.title = @ \o <<55296>>],
      FetchedPaper("ARXIV:2401.00001", "SWE-bench", <<"Knuth">>, Year(2024)),
      FetchedPaper("doi:10.1/x", " Swe-Bench", <<"knuth", "Judge">>, Year(2024)),
      FetchedPaper("", "SWE-bench", <<"Knuth">>, Year(2025)),
      FetchedPaper("", "SWE-bench", <<>>, <<>>),
      FetchedPaper("doi:10.1/y", "\r\nswe-bench", <<>>, <<>>),
      FetchedPaper("doi:10.1/x", "MBPP|Judge", <<>>, <<>>),
      FetchedPaper("", "MBPP", <<"Judge|">>, <<>>),
      FetchedPaper("", "t563c94bc4326f852", <<>>, <<>>),
      FetchedPaper("", "t78ef8deeaab39799", <<>>, <<>>),
      [FetchedPaper("", "SWE-bench", <<>>, <<>>) EXCEPT !.title = @ \o <<55296>>] }

\* The digests of the texts the papers above are hashed by, computed once.
PoolDigests ==
    [raw \in {r \in {RawKey(p) : p \in PaperPool} : CanEncode(r)} |-> Sha256Hex16(raw)]

\* Line 18: hashlib.sha256(raw.encode("utf-8")).hexdigest()[:16]
HexDigest16(raw) ==
    IF raw \in DOMAIN PoolDigests THEN PoolDigests[raw] ELSE Sha256Hex16(raw)

\* The exception raw.encode("utf-8") raises, kept apart from every str (no code
\* point is negative).
UnicodeEncodeError == << -1 >>

\* A key whose hash covers the id as well.
stable_paper_key_of_id(p) ==
    LET raw == p.id \o Codes("|") \o RawKey(p)
    IN  IF IsArxivId(p.id) THEN p.id
        ELSE IF ~CanEncode(raw) THEN UnicodeEncodeError
        ELSE Codes("hash:") \o HexDigest16(raw)

\* Lines 9-19: the key, or the exception line 18 raises.
stable_paper_key(p) ==
    IF IsArxivId(p.id) THEN p.id
    ELSE IF ~CanEncode(RawKey(p)) THEN UnicodeEncodeError
    ELSE Codes("hash:") \o HexDigest16(RawKey(p))

RECURSIVE DedupeFrom(_, _, _, _)
\* Lines 25-31, from the i-th paper on.  p.id = k rewrites the id of the object
\* in the list passed in as well; an exception of stable_paper_key ends the
\* loop with the papers before it treated.
DedupeFrom(ps, i, seen, out) ==
    IF i > Len(ps) THEN [raised |-> FALSE, out |-> out, papers |-> ps]
    ELSE LET k == stable_paper_key(ps[i])
         IN  CASE k = UnicodeEncodeError -> [raised |-> TRUE, out |-> out, papers |-> ps]
               [] k # UnicodeEncodeError /\ k \in seen -> DedupeFrom(ps, i + 1, seen, out)
               [] OTHER ->
                    DedupeFrom([ps EXCEPT ![i].id = k], i + 1, seen \cup {k},
                               Append(out, [ps[i] EXCEPT !.id = k]))

\* Lines 22-32: the call returns out (raised = FALSE) or raises; papers are the
\* objects of the argument after the call.
dedupe_papers(ps) == DedupeFrom(ps, 1, {}, <<>>)

WithRefs(ps) == [i \in 1..Len(ps) |-> [ref |-> i] @@ ps[i]]

InitDedupe ==
    /\ \E n \in 0..MaxPapers : \E ps \in [1..n -> PaperPool] : papers = WithRefs(ps)
    /\ InitRest

\* papers = dedupe_papers(papers), as main.py line 49 calls it: the list is
\* replaced when the call returns, and an exception ends the program.  dedupe.py
\* imports nothing of scoring.py.
Dedupe ==
    /\ Len(deduped) < MaxRuns
    /\ \A n \in 1..Len(deduped) : ~deduped[n].raised
    /\ LET Ended(r) ==
               /\ papers' = IF r.raised THEN r.papers ELSE r.out
               /\ deduped' = Append(deduped, [arg |-> papers, raised |-> r.raised, out |-> r.out])
       IN  Ended(dedupe_papers(papers))
    /\ UNCHANGED <<calls, hits, module, pitch>>

NextDedupe == Dedupe

SpecDedupe == InitDedupe /\ [][NextDedupe]_vars

(***************************************************************************)
(* Helpers of the properties.                                              *)
(***************************************************************************)
Called == 1..Len(calls)

\* The call ended in a return, not in an exception.
Returned(c) == c.raised = "none"

RECURSIVE FiredRules(_, _, _)
\* The rules of a table, from index i on, of which some pattern matches text.
FiredRules(rules, i, text) ==
    IF i > Len(rules) THEN <<>>
    ELSE (IF _hit(text, rules[i].patterns) THEN <<rules[i]>> ELSE <<>>)
         \o FiredRules(rules, i + 1, text)

TagsOf(rules) == [i \in 1..Len(rules) |-> rules[i].tag]

ReasonsOf(rules) == [i \in 1..Len(rules) |-> rules[i].reason]

RECURSIVE SumPts(_)
SumPts(rules) == IF rules = <<>> THEN 0 ELSE Head(rules).pts + SumPts(Tail(rules))

RECURSIVE SumWeights(_)
SumWeights(hs) == IF hs = <<>> THEN 0 ELSE Head(hs).weight + SumWeights(Tail(hs))

NamesOf(hs) == [i \in 1..Len(hs) |-> hs[i].name]

NoRepeats(s) == \A i, j \in 1..Len(s) : i # j => s[i] # s[j]

\* The position of a canonical name in the BENCHMARKS table.
DeclIndex(name) == CHOOSE i \in 1..Len(BENCHMARKS) : BENCHMARKS[i].name = name

\* The groups the claims call core-code positive groups.
CoreGroupTags == {"code_benchmarks", "execution_feedback", "codegen"}

\* The positive groups whose patterns are code or benchmark terms and that can
\* fire without a core-code signal or a benchmark hit.
CodeGroupTags == {"code_benchmarks", "codegen", "code_tasks", "multilang"}

NegativeTags ==
    {"aerospace_robotics", "info_extraction", "climate_geo", "medical_signals",
     "vision_video", "socio_hci"}

FiredNegativeTags(c) == {c.loc.tags[i] : i \in 1..Len(c.loc.tags)} \cap NegativeTags

(***************************************************************************)
(* C1: for every document score_spoj_fit returns a score, an integer with  *)
(* 0 <= score <= 100.                                                      *)
(***************************************************************************)
C1_ScoreInRange ==
    \A i \in Called :
        /\ Returned(calls[i])
        /\ calls[i].fr.score \in 0..ScoreMax

(***************************************************************************)
(* C2: a document in which no benchmark hit and no core-code positive      *)
(* group fired gets a score of at most the gate ceiling, and the ceiling   *)
(* is applied only to such documents: one in which execution_feedback,     *)
(* codegen or code_benchmarks fired, or the extractor has a hit, keeps its *)
(* score.  (The rule table has no repo/software-engineering group.)        *)
(***************************************************************************)
C2_GateOnFiredGroups ==
    \A i \in Called :
        /\ Returned(calls[i])
        /\ LET c == calls[i]
               signal == \/ extract_benchmarks(c.loc.text) # <<>>
                         \/ \E n \in 1..Len(c.loc.tags) : c.loc.tags[n] \in CoreGroupTags
           IN  /\ ~signal => c.fr.score <= GateCeiling
               /\ signal => c.fr.score = Clamp(c.loc.score_neg)

(***************************************************************************)
(* C3: when the extractor has a hit for the document's text, the scorer    *)
(* adds min(60, sum of the three heaviest weights) to the running score,   *)
(* adds the tag "benchmarks" and records a reason for it.                  *)
(***************************************************************************)
C3_BenchmarkContribution ==
    \A i \in Called :
        /\ Returned(calls[i])
        /\ LET c == calls[i]
               hs == extract_benchmarks(c.loc.text)
               fired == FiredRules(positive_rules(ModuleTables), 1, c.loc.text)
           IN  hs # <<>> =>
                 /\ c.loc.score_pos = Min(60, SumWeights(Take(hs, 3))) + SumPts(fired)
                 /\ InSeq("benchmarks", c.fr.tags)
                 /\ Len(c.loc.reasons_pos) = Len(fired) + 1

\* Two calls that returned, for the two documents of a pair: the same
\* off-domain groups fired, and only the second carries a core-code signal.
SoftenedPair(a, b) ==
    /\ a.idx = 1 /\ b.idx = 2
    /\ ~a.loc.core_code_signal /\ b.loc.core_code_signal
    /\ FiredNegativeTags(a) # {}
    /\ FiredNegativeTags(a) = FiredNegativeTags(b)

(***************************************************************************)
(* C4: of two documents that fire the same off-domain groups (at least     *)
(* one) and differ only in that the second carries a core-code signal,     *)
(* score_spoj_fit returns a strictly higher score for the second.          *)
(***************************************************************************)
C4_StrictlyHigher ==
    /\ \A i \in Called : Returned(calls[i])
    /\ \A i, j \in Called :
          SoftenedPair(calls[i], calls[j]) => calls[j].fr.score > calls[i].fr.score

(***************************************************************************)
(* C5: the reasons list score_spoj_fit returns has at least 1 and at most  *)
(* 3 entries.                                                              *)
(***************************************************************************)
C5_ReasonsBetween1And3 ==
    \A i \in Called :
        /\ Returned(calls[i])
        /\ Len(calls[i].fr.reasons) \in 1..MaxReasons

(***************************************************************************)
(* C6: the tags returned are the tags of what fired (the benchmark step,   *)
(* then the positive groups in table order, then the negative groups in    *)
(* table order), without repeats, cut to the first 8.                      *)
(***************************************************************************)
C6_TagsOfWhatFired ==
    \A i \in Called :
        /\ Returned(calls[i])
        /\ LET text == calls[i].loc.text
               expected ==
                   (IF extract_benchmarks(text) # <<>> THEN <<"benchmarks">> ELSE <<>>)
                   \o TagsOf(FiredRules(positive_rules(ModuleTables), 1, text))
                   \o TagsOf(FiredRules(negative_rules, 1, text))
           IN  /\ NoRepeats(calls[i].fr.tags)
               /\ calls[i].fr.tags = Take(expected, MaxTags)

(***************************************************************************)
(* C7: the FitResult returned carries a benchmarks list, the canonical     *)
(* names of all extractor hits in the extractor's order cut to the first   *)
(* 10, so that the caller can read score, tags, reasons and benchmarks     *)
(* from it.                                                                *)
(***************************************************************************)
C7_BenchmarksInResult ==
    \A i \in Called :
        /\ Returned(calls[i])
        /\ {"score", "tags", "reasons", "benchmarks"} \subseteq DOMAIN calls[i].fr
        /\ calls[i].fr.benchmarks = Take(NamesOf(extract_benchmarks(calls[i].loc.text)), 10)

(***************************************************************************)
(* C8: two calls of score_spoj_fit on the same title and abstract, in any  *)
(* order and with other calls in between, return the same score, tags and  *)
(* reasons; no call changes the paper it is given.                         *)
(***************************************************************************)
C8_Deterministic ==
    /\ \A i \in Called : Returned(calls[i])
    /\ \A i, j \in Called : calls[i].doc = calls[j].doc => calls[i].fr = calls[j].fr
    /\ papers = CallPapers

(***************************************************************************)
(* C9: score_spoj_fit never ends in an error: for every title and abstract *)
(* the program gets a FitResult from it and no exception.                  *)
(***************************************************************************)
C9_NeverRaises == module # "SyntaxError"

(***************************************************************************)
(* C10: extract_benchmarks returns at most one hit per canonical name, the *)
(* hit of the first pattern of that name that matches (its evidence is the *)
(* window around that pattern's match); the hits are in descending weight, *)
(* and hits of equal weight are in the declaration order of BENCHMARKS.    *)
(***************************************************************************)
C10_OneHitPerNameSorted ==
    hits.ran =>
        LET hs == hits.out
            text == _norm(JoinedText(papers[1]))
            t == Tokens(text)
        IN  /\ NoRepeats(NamesOf(hs))
            /\ \A n \in 1..Len(BENCHMARKS) :
                  InSeq(BENCHMARKS[n].name, NamesOf(hs))
                      <=> \E m \in 1..Len(BENCHMARKS[n].patterns) :
                             Search(BENCHMARKS[n].patterns[m], t)
            /\ \A i \in 1..Len(hs) :
                  LET pats == BENCHMARKS[DeclIndex(hs[i].name)].patterns
                  IN  \E n \in 1..Len(pats) :
                        /\ Search(pats[n], t)
                        /\ \A m \in 1..(n - 1) : ~Search(pats[m], t)
                        /\ hs[i].evidence = Evidence(text, re_search_span(pats[n], text))
            /\ \A i, j \in 1..Len(hs) :
                  i < j => \/ hs[i].weight > hs[j].weight
                           \/ /\ hs[i].weight = hs[j].weight
                              /\ DeclIndex(hs[i].name) < DeclIndex(hs[j].name)

\* Two hits of equal weight whose order in the text is the reverse of their
\* declaration order (APPS before "leet code"), a name both of whose patterns
\* match (SWE-bench), and a text longer than the evidence windows cut from it.
C10_Witness ==
    /\ hits.ran
    /\ \E i, j \in 1..Len(hits.out) :
          /\ i < j
          /\ hits.out[i].name = "LeetCode" /\ hits.out[j].name = "APPS"
          /\ hits.out[i].evidence # hits.out[j].evidence
    /\ \E i \in 1..Len(hits.out) :
          /\ hits.out[i].name = "SWE-bench"
          /\ \A m \in 1..Len(BENCHMARKS[1].patterns) :
                re_search(BENCHMARKS[1].patterns[m], _norm(JoinedText(papers[1])))
          /\ Len(hits.out[i].evidence) < Len(_norm(JoinedText(papers[1])))
    /\ Len(hits.out) >= 5

(***************************************************************************)
(* C11: for the document with empty title and empty abstract the function  *)
(* returns score 0, no tag, the one fallback sentence as its reasons, and  *)
(* an empty benchmarks list.                                               *)
(***************************************************************************)
C11_EmptyDocument ==
    \A i \in Called :
        LET c == calls[i]
        IN  (c.doc.title = <<>> /\ c.doc.abstract = <<>>) =>
              /\ Returned(c)
              /\ c.fr.score = 0
              /\ c.fr.tags = <<>>
              /\ c.fr.reasons = << FallbackNone >>
              /\ "benchmarks" \in DOMAIN c.fr
              /\ c.fr.benchmarks = <<>>

(***************************************************************************)
(* C12: for a document whose title names SWE-bench and whose abstract      *)
(* mentions "pull request", "patch" and "unit tests", the benchmark hit    *)
(* SWE-bench (weight 45) adds 45 points to the score, a positive group     *)
(* fires on "pull request", the tags include "benchmarks", and the reasons *)
(* are non-empty, one of them recorded for the benchmark hit.              *)
(***************************************************************************)
C12_SWEbenchExample ==
    \A i \in Called :
        LET c == calls[i]
            text == _norm(JoinedText(c.doc))
            hs == extract_benchmarks(c.doc.title)
            fired == FiredRules(positive_rules(ModuleTables), 1, text)
        IN  ( /\ InSeq("SWE-bench", NamesOf(hs))
              /\ re_search(Two("pull", "request"), text)
              /\ re_search(W("patch"), text)
              /\ re_search(Two("unit", "tests"), text) ) =>
              /\ Returned(c)
              /\ \E n \in 1..Len(hs) : hs[n].name = "SWE-bench" /\ hs[n].weight = 45
              /\ c.loc.score_pos = 45 + SumPts(fired)
              /\ \E n \in 1..Len(positive_rules(ModuleTables)) :
                    _hit(Codes("pull request"), positive_rules(ModuleTables)[n].patterns)
              /\ InSeq("benchmarks", c.fr.tags)
              /\ c.fr.reasons # <<>>
              /\ Len(c.loc.reasons_pos) = Len(fired) + 1

(***************************************************************************)
(* C13: for a document that mentions "clinical ECG classification" and has *)
(* no code or benchmark term (no core-code pattern, no benchmark hit, no   *)
(* pattern of the groups code_benchmarks, codegen, code_tasks, multilang), *)
(* the call returns: the medical_signals group fired with its full penalty *)
(* of -35 (as every other off-domain group that fires), the score is at    *)
(* most the gate ceiling, and the tags include "medical_signals".          *)
(***************************************************************************)
C13_ClinicalExample ==
    \A i \in Called :
        LET c == calls[i]
            text == _norm(JoinedText(c.doc))
            fired_pos == FiredRules(positive_rules(ModuleTables), 1, text)
        IN  ( /\ re_search(Ph(<<"clinical", " ", "ecg", " ", "classification">>), text)
              /\ ~_hit(text, CORE_CODE_PATTERNS)
              /\ extract_benchmarks(text) = <<>>
              /\ \A n \in 1..Len(fired_pos) : fired_pos[n].tag \notin CodeGroupTags ) =>
              /\ Returned(c)
              /\ InSeq("medical_signals", c.loc.tags)
              /\ InSeq(N_medical_signals, c.loc.reasons_neg)
              /\ c.loc.score_neg =
                    c.loc.score_pos + SumPts(FiredRules(negative_rules, 1, text))
              /\ c.loc.score_neg <= c.loc.score_pos - 35
              /\ c.fr.score <= GateCeiling
              /\ InSeq("medical_signals", c.fr.tags)

\* The halves of the penalties of negative_rules, rounded toward zero.
HalfTowardZero(pts) ==
    CASE pts = -25 -> -12
      [] pts = -15 -> -7
      [] pts = -35 -> -17
      [] pts = -20 -> -10

RECURSIVE SumPenalties(_, _)
SumPenalties(rules, softened) ==
    IF rules = <<>> THEN 0
    ELSE (IF softened THEN HalfTowardZero(Head(rules).pts) ELSE Head(rules).pts)
         + SumPenalties(Tail(rules), softened)

\* What the call c, which returned, did for its firing negative groups, if
\* core_signal_present is the value given.
NegativeGroupsApplied(c, core_signal_present) ==
    LET fired_pos == FiredRules(positive_rules(ModuleTables), 1, c.loc.text)
        fired_neg == FiredRules(negative_rules, 1, c.loc.text)
    IN  /\ c.loc.core_code_signal = core_signal_present
        /\ c.loc.score_neg = c.loc.score_pos + SumPenalties(fired_neg, core_signal_present)
        /\ c.loc.tags = TagsOf(fired_pos) \o TagsOf(fired_neg)
        /\ c.loc.reasons_neg = ReasonsOf(fired_neg)
        /\ \A n \in 1..Len(c.loc.reasons_pos) :
              ~InSeq(c.loc.reasons_pos[n], ReasonsOf(negative_rules))

(***************************************************************************)
(* C15: in every call, every firing negative group adds half its penalty,  *)
(* rounded toward zero (-25 gives -12, -15 gives -7, -35 gives -17), when  *)
(* core_signal_present is true and its full penalty otherwise, where       *)
(* core_signal_present is true if and only if one of the core positive     *)
(* groups (code_benchmarks, execution_feedback, codegen) fired; the        *)
(* group's tag is appended and its reason goes to the negative list only.  *)
(***************************************************************************)
C15_SoftenedIffCoreGroupFired ==
    \A i \in Called :
        /\ Returned(calls[i])
        /\ NegativeGroupsApplied(calls[i],
              \E n \in 1..Len(calls[i].loc.tags) : calls[i].loc.tags[n] \in CoreGroupTags)

\* The reasons of the call c, which returned, if the fallback sentence that
\* follows a negative reason and the one that stands alone are the two given.
ReasonsSelected(c, after_negative, alone) ==
    LET pos == c.loc.reasons_pos
        neg == c.loc.reasons_neg
        reasons == c.fr.reasons
    IN  /\ pos # <<>> =>
              /\ reasons = Take(Unique(pos, <<>>), 3)
              /\ \A n \in 1..Len(reasons) :
                    /\ ~InSeq(reasons[n], ReasonsOf(negative_rules))
                    /\ reasons[n] \notin {after_negative, alone}
        /\ (pos = <<>> /\ neg # <<>>) => reasons = << neg[1], after_negative >>
        /\ (pos = <<>> /\ neg = <<>>) => reasons = << alone >>

(***************************************************************************)
(* C16: the reasons returned: when a positive group fired, the first up to *)
(* 3 distinct positive reasons in firing order, with no negative reason    *)
(* and no fallback sentence; when none did and a negative group fired, the *)
(* first negative reason and the fixed fallback sentence ("Low direct      *)
(* relevance ... needs manual review."); when nothing fired, that same     *)
(* sentence alone.                                                         *)
(***************************************************************************)
C16_OneFallbackSentence ==
    \A i \in Called :
        /\ Returned(calls[i])
        /\ ReasonsSelected(calls[i], FallbackNone, FallbackNone)

\* The text that is one alternative of a core-code pattern and nothing else
\* fires a positive rule, for every alternative of every pattern.
CorePatternsFirePositive ==
    \A n \in 1..Len(CORE_CODE_PATTERNS) : \A a \in CORE_CODE_PATTERNS[n] :
        FiredRules(positive_rules(ModuleTables), 1, Join(a.toks)) # <<>>

(***************************************************************************)
(* C17: every call returns reasons; whenever they contain a fallback       *)
(* sentence, no positive group fired, the score returned is 0 and every    *)
(* penalty was applied in full; every document with core_code_signal true  *)
(* fires a positive group (each alternative of each pattern of             *)
(* CORE_CODE_PATTERNS is matched by a pattern of a positive rule), so a    *)
(* softened penalty and a score above 0 occur only together with a         *)
(* positive reason.                                                        *)
(***************************************************************************)
C17_FallbackMeansZero ==
    /\ CorePatternsFirePositive
    /\ \A i \in Called :
          /\ Returned(calls[i])
          /\ LET c == calls[i]
                 fallback == \/ InSeq(FallbackNeg, c.fr.reasons)
                             \/ InSeq(FallbackNone, c.fr.reasons)
                 full == SumPts(FiredRules(negative_rules, 1, c.loc.text))
             IN  /\ fallback <=> c.loc.reasons_pos = <<>>
                 /\ fallback =>
                       /\ c.fr.score = 0
                       /\ ~c.loc.core_code_signal
                       /\ c.loc.score_neg = c.loc.score_pos + full
                 /\ c.loc.core_code_signal => c.loc.reasons_pos # <<>>
                 /\ (c.fr.score > 0 \/ c.loc.score_neg # c.loc.score_pos + full) =>
                       (c.loc.reasons_pos # <<>> /\ c.fr.reasons = Take(c.loc.reasons_pos, 3))

(***************************************************************************)
(* The condition list of build_spoj_pitch for a tag set and a benchmark    *)
(* set, in priority order: the conditions of the bullets, and the          *)
(* conditions of the branches of the one-line narrative.                   *)
(***************************************************************************)
BulletConditions(tags, benches) ==
    << [holds |-> {"SWE-bench", "RepoBench"} \cap benches # {}, bullet |-> B_repo],
       [holds |-> {"HumanEval", "MBPP", "EvalPlus"} \cap benches # {}, bullet |-> B_codegen],
       [holds |-> {"APPS", "Codeforces", "CodeContests"} \cap benches # {},
        bullet |-> B_competitive],
       [holds |-> "verition" \in tags, bullet |-> B_verification],
       [holds |-> "core_code" \in tags, bullet |-> B_core_code],
       [holds |-> "agents_tools" \in tags, bullet |-> B_agents_tools] >>

OneBranches(tags, benches) ==
    << [holds |-> {"SWE-bench", "RepoBench"} \cap benches # {}, one |-> One_repo],
       [holds |-> {"HumanEval", "MBPP", "EvalPlus"} \cap benches # {}, one |-> One_codegen],
       [holds |-> {"APPS", "Codeforces", "CodeContests"} \cap benches # {},
        one |-> One_competitive],
       [holds |-> {"core_code", "verification"} \cap tags # {}, one |-> One_core] >>

\* The paper with the same tags and benchmarks, each list reversed and repeated.
SameSetsOtherLists(p) ==
    EnrichedPaper(Reverse(p.spoj_fit_tags) \o p.spoj_fit_tags,
                  Reverse(p.spoj_benchmarks) \o p.spoj_benchmarks)

(***************************************************************************)
(* C14: for every tag set and benchmark set, the bullets build_spoj_pitch  *)
(* returns are the bullets of the conditions that hold, in the priority    *)
(* order of the condition list, cut to the first 3; the one-line narrative *)
(* is the sentence of the first branch whose condition holds, or the       *)
(* catch-all sentence when none holds; and the output depends on the two   *)
(* sets only (the same sets, listed otherwise, give the same output).      *)
(***************************************************************************)
C14_PitchByPriority ==
    pitch.ran =>
        LET tags == ToSet(papers[1].spoj_fit_tags)
            benches == ToSet(papers[1].spoj_benchmarks)
            conds == BulletConditions(tags, benches)
            branches == OneBranches(tags, benches)
            bullets == pitch.out.bullets
            \* the position in the condition list of the n-th bullet returned
            at(n) == CHOOSE k \in 1..Len(conds) : conds[k].bullet = bullets[n]
        IN  /\ Len(bullets) <= 3
            /\ \A n \in 1..Len(bullets) :
                  /\ \E k \in 1..Len(conds) : conds[k].bullet = bullets[n]
                  /\ conds[at(n)].holds
            /\ \A n, m \in 1..Len(bullets) : n < m => at(n) < at(m)
            /\ \A k \in 1..Len(conds) :
                  (conds[k].holds /\ ~InSeq(conds[k].bullet, bullets)) =>
                      /\ Len(bullets) = 3
                      /\ at(3) < k
            /\ \A k \in 1..Len(branches) :
                  (branches[k].holds /\ \A j \in 1..(k - 1) : ~branches[j].holds) =>
                      pitch.out.one = branches[k].one
            /\ (\A k \in 1..Len(branches) : ~branches[k].holds) =>
                  pitch.out.one = One_catch_all
            /\ build_spoj_pitch(SameSetsOtherLists(papers[1])) = pitch.out

\* Five conditions hold, among them the second and the third but not the
\* first: three bullets come back and the second branch gives the one-liner.
C14_Witness ==
    /\ pitch.ran
    /\ LET tags == ToSet(papers[1].spoj_fit_tags)
           benches == ToSet(papers[1].spoj_benchmarks)
           conds == BulletConditions(tags, benches)
       IN  /\ Cardinality({k \in 1..Len(conds) : conds[k].holds}) = 5
           /\ ~conds[1].holds
    /\ pitch.out.bullets = << B_codegen, B_competitive, B_verification >>
    /\ pitch.out.one = One_codegen
    /\ Len(papers[1].spoj_fit_tags) >= 2
    /\ papers[1].spoj_fit_tags[1] = "agents_tools"

(***************************************************************************)
(* C18: for every tag set and benchmark set, if the one-line narrative     *)
(* build_spoj_pitch returns is not the catch-all sentence then the bullets *)
(* returned are non-empty; a paper whose tags contain "verification" and   *)
(* which has no benchmarks gets the verification/core-code one-liner and   *)
(* the correctness/verification bullet.                                    *)
(***************************************************************************)
C18_OneLinerHasBullets ==
    pitch.ran =>
        LET tags == ToSet(papers[1].spoj_fit_tags)
            benches == ToSet(papers[1].spoj_benchmarks)
        IN  /\ pitch.out.one # One_catch_all => pitch.out.bullets # <<>>
            /\ ("verification" \in tags /\ benches = {}) =>
                  /\ pitch.out.one = One_core
                  /\ InSeq(B_verification, pitch.out.bullets)

KeysOf(ps) == [i \in 1..Len(ps) |-> stable_paper_key(ps[i])]

RefsOf(ps) == [i \in 1..Len(ps) |-> ps[i].ref]

\* The papers of ps that stable_paper_key cannot hash.
Unhashable(ps) == {i \in 1..Len(ps) : ~IsArxivId(ps[i].id) /\ ~CanEncode(RawKey(ps[i]))}

\* What the n-th call returned is a subsequence of its argument without two
\* papers of one key, made of the first paper of each key with its id set to
\* the key, and dedupe_papers returns it unchanged.
ReturnedDeduped(n) ==
    LET arg == deduped[n].arg
        out == deduped[n].out
        keys == KeysOf(arg)
        \* the position in arg of the m-th paper returned
        at(m) == CHOOSE i \in 1..Len(arg) : arg[i].ref = out[m].ref
    IN  /\ ~deduped[n].raised
        /\ \A m \in 1..Len(out) : InSeq(out[m].ref, RefsOf(arg))
        /\ \A m, l \in 1..Len(out) : m < l => at(m) < at(l)
        /\ \A i \in 1..Len(arg) :
              InSeq(arg[i].ref, RefsOf(out)) <=> \A j \in 1..(i - 1) : keys[j] # keys[i]
        /\ \A m \in 1..Len(out) : out[m] = [arg[at(m)] EXCEPT !.id = keys[at(m)]]
        /\ NoRepeats(KeysOf(out))
        /\ KeysOf(out) = [m \in 1..Len(out) |-> out[m].id]
        /\ ~dedupe_papers(out).raised
        /\ dedupe_papers(out).out = out
        /\ n > 1 => (arg = deduped[n - 1].out /\ out = arg)

(***************************************************************************)
(* C19 as claimed: for every input list, dedupe_papers returns a           *)
(* subsequence in which no two papers have the same stable_paper_key; it   *)
(* keeps the first paper of each key, in input order, and sets the id of   *)
(* each kept paper to its key; and dedupe_papers of its own output returns *)
(* the same papers with the same ids.                                      *)
(***************************************************************************)
C19_DedupeAlwaysReturns ==
    \A n \in 1..Len(deduped) : ReturnedDeduped(n)

(***************************************************************************)
(* C19: dedupe_papers raises UnicodeEncodeError exactly when its input has *)
(* a paper whose id does not start with "arxiv:" and whose title or first  *)
(* author holds a surrogate code point, and then the papers before the     *)
(* first such paper were treated.  For every other input list it returns a *)
(* subsequence in which no two papers have the same stable_paper_key; it   *)
(* keeps the first paper of each key, in input order, and sets the id of   *)
(* each kept paper to its key, leaving the rest of the paper as it was;    *)
(* and dedupe_papers of its own output returns the same papers with the    *)
(* same ids (the key of a paper whose id was rewritten is its id).         *)
(***************************************************************************)
C19_DedupeIdempotent ==
    \A n \in 1..Len(deduped) :
        LET arg == deduped[n].arg
            first == CHOOSE i \in Unhashable(arg) : \A j \in Unhashable(arg) : i <= j
            before == dedupe_papers(SubSeq(arg, 1, first - 1))
        IN  /\ deduped[n].raised <=> Unhashable(arg) # {}
            /\ deduped[n].raised =>
                  /\ \E c \in 55296..57343 :
                        \/ InSeq(c, arg[first].title)
                        \/ arg[first].authors # <<>> /\ InSeq(c, arg[first].authors[1])
                  /\ ~before.raised
                  /\ deduped[n].out = before.out
                  /\ n = Len(deduped) =>
                        papers = before.papers \o SubSeq(arg, first, Len(arg))
            /\ ~deduped[n].raised => ReturnedDeduped(n)

\* Two runs on three papers: the second paper has the key of the first (its
\* title differs in case and leading whitespace only), ids were rewritten to
\* hash keys of 16 hex digits, and an arxiv id was kept.
C19_Witness ==
    /\ Len(deduped) = 2
    /\ ~deduped[1].raised /\ ~deduped[2].raised
    /\ LET arg == deduped[1].arg
           out == deduped[1].out
       IN  /\ Len(arg) = 3 /\ Len(out) = 2
           /\ RefsOf(out) = <<1, 3>>
           /\ arg[1].title # arg[2].title
           /\ arg[1].id # out[1].id
           /\ StartsWith(out[1].id, Codes("hash:"))
           /\ Len(out[1].id) = 21
           /\ StartsWith(out[2].id, Codes("arxiv:"))
           /\ deduped[2].out = out

====
